---------------------------- MODULE Spec2Model ----------------------------
(***************************************************************************)
(* The sky map of skyapp: make_figure with its visibility filter, zoom,    *)
(* label selection (_select_labels) and label placement                    *)
(* (_place_labels_non_overlapping), the size and opacity of the markers    *)
(* (core/sky_core.py), the 3D points and compass (core/sky_3d.py) and the  *)
(* web UI's label-mode mapping (web/app_streamlit.py).                     *)
(*                                                                         *)
(* Numbers.  Python floats are modelled by integers in fixed point:        *)
(* theta is in hundredths of a radian, r and altitudes in tenths of a      *)
(* degree, pixel quantities are whole numbers; the magnitudes of the label *)
(* tests are whole numbers, those of the MAGS table are in tenths.         *)
(* Strings that the code transforms (strip, lower) are sequences of        *)
(* one-character strings, so that the transformation is computed, not      *)
(* assumed.                                                                *)
(***************************************************************************)
EXTENDS Integers, Sequences, FiniteSets, TLC

VARIABLES
    \* ---- make_figure / _select_labels
    ui_value,        \* value of the web UI's label-mode widget ("" : no UI involved)
    modo_etiquetas,  \* make_figure's argument modo_etiquetas (or the caller's raw mode)
    caller,          \* "make_figure" | "direct": who calls _select_labels
    label_mode,      \* the label_mode argument _select_labels receives
    points,          \* list of visible points (dicts name/theta/r/mag)
    max_etiquetas,   \* max_labels argument
    cluster_px,      \* cluster_px argument
    label_points,    \* list returned by _select_labels / given to placement
    pc,              \* position in the pipeline
    \* ---- _place_labels_non_overlapping
    min_sep_px,      \* min_label_sep_px argument
    placed_bboxes,   \* list of committed inflated boxes
    annotations,     \* annotations currently on the axes: records [label, cand]
    li,              \* index of the label being placed (outer loop)
    ci,              \* index of the next candidate offset to try (inner loop)
    best_text,       \* candidate index of the annotation kept so far (0 = None)
    best_bbox,       \* its inflated box (<<>> while best_text is None)
    best_score,      \* its score (0 while best_text is None)
    tried,           \* per committed label: number of candidates evaluated
    \* ---- _size_from_mag / _alpha_from_alt / the 3D size (pure functions)
    enc_mag,         \* magnitude given (tenths)
    enc_alt,         \* altitude given (tenths of a degree)
    enc_size,        \* result of _size_from_mag (tenths)
    enc_size3d,      \* result of the 3D size expression (hundredths)
    enc_alpha,       \* result of _alpha_from_alt (ten-thousandths)
    enc_pc,          \* set of the functions already applied
    \* ---- the projections of one object (2D polar, 3D vector)
    prj_alt,         \* altitude (tenths of a degree)
    prj_az,          \* azimuth (whole degrees)
    prj_polar,       \* (theta, r) of make_figure
    prj_xyz,         \* (x, y, z) of _points_from_altaz
    prj_pc,          \* set of the projections already applied
    \* ---- make_figure as a whole, and _points_from_altaz
    altaz_dict,      \* the ephemeris mapping: list of entries name/alt/az/valid
    rmax,            \* make_figure's argument rmax (tenths of a degree)
    auto_zoom,       \* make_figure's argument auto_zoom
    zoom_margin_deg, \* make_figure's argument zoom_margin_deg (tenths)
    zoomed,          \* names of the points the auto-zoom took its minimum over
    r_max,           \* the local rmax after the zoom and the clamp (0: not yet)
    rlim,            \* the radial limit given to ax.set_rlim (0: not yet)
    plotted,         \* the objects scattered on the axes
    pts3d,           \* list returned by _points_from_altaz
    pc3d,            \* "idle" | "done": the 3D list of this mapping
    open_figs,       \* figures registered in pyplot and not closed
    fig_returned,    \* figures the caller received
    tick_rs,         \* radial ticks given to ax.set_rticks (thirtieths of a degree)
    tick_labels,     \* their labels given to ax.set_yticklabels
    \* ---- desktop MainWindow (desktop/app_qt.py)
    dk_pc,           \* "init": in __init__ before its on_generate | "ready"
    dk_theme,        \* self.theme
    dk_nfigs,        \* number of figures make_figure has created for the window
    dk_open,         \* figures registered in pyplot and not closed
    dk_canvas,       \* figure of self.canvas (0: self.canvas is None)
    dk_attached,     \* canvases in canvas_container, by their figure
    dk_zoom_ax,      \* figure of self._zoom_ax (0: None)
    dk_ylim,         \* upper y-limit of self._zoom_ax (thousandths of a degree)
    dk_scrolls,      \* scroll events handled so far
    dk_gen,          \* the last on_generate: outcome, status it set, error dialog
    dk_status,       \* message of the status bar
    dk_auto_timer,   \* self._auto_timer (0: None, else the timer's number)
    dk_timers,       \* number of QTimer objects created
    dk_conns,        \* number of timeout.connect(on_generate) calls
    dk_timer_ms,     \* interval of the running timer (0: not running)
    dk_last_state,   \* state of the last stateChanged signal (-1: none yet)
    \* ---- camera of the 3D page (core/sky_3d.py, the page's script)
    cam_pc,          \* "load": script not yet run | "live"
    cam_pos,         \* camera.position (ten-thousandths)
    cam_target,      \* controls.target (ten-thousandths)
    cam_by,          \* the function that last positioned the camera
    cam_clicks,      \* clicks on objects handled so far
    \* ---- compute_altaz
    ca_nombres,      \* the argument nombres (<<"None">>: None), a list of names
    ca_sky,          \* altitude of every known body at obstime (tenths of a degree)
    ca_altaz,        \* the returned mapping, as the list of its items in dict order
    ca_table,        \* the returned table: list of SkyObject
    ca_pc,           \* "call" | "returned"
    \* ---- the place label of the web page (web/app_streamlit.py)
    place_label,             \* st.session_state.place_label (list of characters)
    place_label_user_edited, \* st.session_state.place_label_user_edited
    place_label_source,      \* st.session_state.place_label_source
    wl_widget,       \* text in the "Etiqueta del lugar" input
    wl_geo,          \* the browser supplied a location in the last script run
    wl_left_empty,   \* the label and the input were empty when that run started
    wl_tried,        \* that run called the reverse geocoder
    wl_value,        \* the value argument the input was last created with
    wl_pc            \* "idle": page not in use | "load": before the first script
                     \* run | "ready" | "rerun": st.rerun() was called

selVars == <<ui_value, modo_etiquetas, caller, label_mode, points,
             max_etiquetas, cluster_px>>
placeVars == <<min_sep_px, placed_bboxes, annotations, li, ci,
               best_text, best_bbox, best_score, tried>>
encVars == <<enc_mag, enc_alt, enc_size, enc_size3d, enc_alpha, enc_pc>>
projVars == <<prj_alt, prj_az, prj_polar, prj_xyz, prj_pc>>
figVars == <<altaz_dict, rmax, auto_zoom, zoom_margin_deg, zoomed, r_max,
             rlim, plotted, pts3d, pc3d, open_figs, fig_returned>>
otherVars == <<encVars, projVars, figVars>>
tickVars == <<tick_rs, tick_labels>>
timerVars == <<dk_auto_timer, dk_timers, dk_conns, dk_timer_ms, dk_last_state>>
canvasVars == <<dk_nfigs, dk_open, dk_canvas, dk_attached, dk_zoom_ax, dk_ylim,
                dk_scrolls, dk_gen>>
deskVars == <<dk_pc, dk_theme, dk_status, canvasVars, timerVars>>
camVars == <<cam_pc, cam_pos, cam_target, cam_by, cam_clicks>>
altazVars == <<ca_nombres, ca_sky, ca_altaz, ca_table, ca_pc>>
labelVars == <<place_label, place_label_user_edited, place_label_source,
               wl_widget, wl_geo, wl_left_empty, wl_tried, wl_value, wl_pc>>
appVars == <<deskVars, camVars, altazVars, labelVars>>
laterVars == <<tickVars, appVars>>
vars == <<selVars, label_points, pc, placeVars, otherVars, laterVars>>

-----------------------------------------------------------------------------
(* Bounds and input domains                                                *)

MaxPoints == 3

\* names by position in the input list (dict keys are unique per render)
Names == <<"Venus", "Marte", "Luna", "Saturno", "Urano">>

\* magnitudes of test_labels.py
Mags == {-4, 1}

\* (theta, r): the two positions of test_labels.py, (0.50, 40) and
\* (0.51, 40.1), and (0.50, 40.1), which is exactly 10 px from the first
SelPositions == {<<50, 400>>, <<51, 401>>, <<50, 401>>}

MaxLabelsValues == {-1, 0, 1, 2, 5}

ClusterPxValues == {0, 10, 50}

Min(a, b) == IF a <= b THEN a ELSE b
Max(a, b) == IF a >= b THEN a ELSE b

PointAt(i, pos, m) == [name |-> Names[i], theta |-> pos[1], r |-> pos[2], mag |-> m]

\* all lists of n points over the given positions and magnitudes
PointLists(n, positions, mags) ==
    { [i \in 1..n |-> PointAt(i, f[i][1], f[i][2])] :
        f \in [1..n -> positions \X mags] }

AllPointLists(positions, mags) ==
    UNION { PointLists(n, positions, mags) : n \in 0..MaxPoints }

-----------------------------------------------------------------------------
(* Strings                                                                 *)

UpperChars == <<"A","B","C","D","E","F","G","H","I","J","K","L","M",
                "N","O","P","Q","R","S","T","U","V","W","X","Y","Z">>
LowerChars == <<"a","b","c","d","e","f","g","h","i","j","k","l","m",
                "n","o","p","q","r","s","t","u","v","w","x","y","z">>
Whitespace == {" ", "\t", "\n"}

\* str.lower()
lower(s) ==
    [i \in 1..Len(s) |->
        IF \E k \in 1..Len(UpperChars) : UpperChars[k] = s[i]
        THEN LowerChars[CHOOSE k \in 1..Len(UpperChars) : UpperChars[k] = s[i]]
        ELSE s[i]]

RECURSIVE lstrip(_)
lstrip(s) == IF s # <<>> /\ Head(s) \in Whitespace THEN lstrip(Tail(s)) ELSE s

RECURSIVE rstrip(_)
rstrip(s) ==
    IF s # <<>> /\ s[Len(s)] \in Whitespace
    THEN rstrip(SubSeq(s, 1, Len(s) - 1))
    ELSE s

\* str.strip()
strip(s) == rstrip(lstrip(s))

\* the three mode strings of the core
Todas == <<"t","o","d","a","s">>
Inteligentes == <<"i","n","t","e","l","i","g","e","n","t","e","s">>
Top == <<"t","o","p">>

\* Python's None (no character sequence has this shape)
None == <<"None">>

\* raw mode values a caller may pass
RawModes ==
    { None, <<>>, <<"s","m","a","r","t">>, <<" ","T","O","P"," ">>,
      <<"T","o","d","a","s">>, Inteligentes, Top }

\* values of the web UI's widget: the three options and a value it does not know
UiValues == {"Inteligentes", "Todas", "Top (más brillantes)", "Automático"}

-----------------------------------------------------------------------------
(* web/app_streamlit.py                                                    *)

\* m.get(value, "inteligentes")
_ui_modo_etiquetas_to_core(value) ==
    CASE value = "Inteligentes" -> Inteligentes
      [] value = "Todas" -> Todas
      [] value = "Top (más brillantes)" -> Top
      [] OTHER -> Inteligentes

-----------------------------------------------------------------------------
(* core/sky_core.py: label selection                                       *)

\* MockAx.transData.transform of test_labels.py: (coord[0]*100, coord[1]*100),
\* with theta in hundredths and r in tenths; the result is in pixels
transData(theta, r) == <<theta, r * 10>>

\* faulty variant: an unstable insertion, before the elements of equal key
RECURSIVE InsertByMag_unstable(_, _)
InsertByMag_unstable(s, p) ==
    IF s = <<>> THEN <<p>>
    ELSE IF Head(s).mag < p.mag THEN <<Head(s)>> \o InsertByMag_unstable(Tail(s), p)
    ELSE <<p>> \o s

\* insertion of p into a list sorted by mag, after every element whose key is
\* not greater (sorted() is stable)
RECURSIVE InsertByMag(_, _)
InsertByMag(s, p) ==
    IF s = <<>> THEN <<p>>
    ELSE IF Head(s).mag <= p.mag THEN <<Head(s)>> \o InsertByMag(Tail(s), p)
    ELSE <<p>> \o s

RECURSIVE SortedFrom(_, _, _)
SortedFrom(pts, i, acc) ==
    IF i > Len(pts) THEN acc ELSE SortedFrom(pts, i + 1, InsertByMag(acc, pts[i]))

\* faulty variant: the sort is left out
sorted_by_mag_skipped(pts) == pts

Reverse(s) == [i \in 1..Len(s) |-> s[Len(s) + 1 - i]]

\* faulty variant: reverse=True, the faintest first
sorted_by_mag_faintest_first(pts) == Reverse(SortedFrom(pts, 1, <<>>))

\* sorted(points, key=lambda p: p["mag"])
sorted_by_mag(pts) == SortedFrom(pts, 1, <<>>)

\* Python's s[:n]: the first n elements for n >= 0, all but the last -n for n < 0
slice_to(s, n) ==
    IF n >= 0 THEN SubSeq(s, 1, Min(n, Len(s)))
    ELSE SubSeq(s, 1, Max(Len(s) + n, 0))

\* faulty variant: "<" for "<=", a point exactly cluster_px away is accepted
too_close_strict(xy, taken_xy, cpx) ==
    \E k \in 1..Len(taken_xy) :
        (xy[1] - taken_xy[k][1]) * (xy[1] - taken_xy[k][1])
      + (xy[2] - taken_xy[k][2]) * (xy[2] - taken_xy[k][2]) < cpx * cpx

\* the inner loop over taken_xy: (x-tx)**2 + (y-ty)**2 <= cluster_px**2
too_close(xy, taken_xy, cpx) ==
    \E k \in 1..Len(taken_xy) :
        (xy[1] - taken_xy[k][1]) * (xy[1] - taken_xy[k][1])
      + (xy[2] - taken_xy[k][2]) * (xy[2] - taken_xy[k][2]) <= cpx * cpx

\* the loop "for p in pts" of the smart mode, from position i on
RECURSIVE smart_loop(_, _, _, _, _, _)
smart_loop(pts, i, labeled, taken_xy, max_labels, cpx) ==
    IF i > Len(pts) THEN labeled
    ELSE LET p == pts[i]
             xy == transData(p.theta, p.r)
         IN  IF too_close(xy, taken_xy, cpx)
             THEN smart_loop(pts, i + 1, labeled, taken_xy, max_labels, cpx)
             ELSE IF Len(labeled) + 1 >= max_labels
                  THEN Append(labeled, p)
                  ELSE smart_loop(pts, i + 1, Append(labeled, p),
                                  Append(taken_xy, xy), max_labels, cpx)

\* faulty variant: max_labels also caps the mode "todas"
_select_labels_todas_capped(pts, mode, max_labels, cpx) ==
    IF mode = Todas THEN slice_to(pts, max_labels)
    ELSE IF mode = Top THEN slice_to(sorted_by_mag(pts), max_labels)
    ELSE smart_loop(sorted_by_mag(pts), 1, <<>>, <<>>, max_labels, cpx)

\* what a caller sees of an IndexError raised inside the function
IndexError == <<[name |-> "IndexError", theta |-> 0, r |-> 0, mag |-> 0]>>

\* faulty variant: the smart mode takes the brightest point, pts[0], before its loop
_select_labels_first_taken(pts, mode, max_labels, cpx) ==
    IF mode = Todas THEN pts
    ELSE IF mode = Top THEN slice_to(sorted_by_mag(pts), max_labels)
    ELSE IF pts = <<>> THEN IndexError
    ELSE smart_loop(sorted_by_mag(pts), 2, <<sorted_by_mag(pts)[1]>>,
                    <<transData(sorted_by_mag(pts)[1].theta, sorted_by_mag(pts)[1].r)>>,
                    max_labels, cpx)

_select_labels(pts, mode, max_labels, cpx) ==
    IF mode = Todas THEN pts
    ELSE IF mode = Top THEN slice_to(sorted_by_mag(pts), max_labels)
    ELSE smart_loop(sorted_by_mag(pts), 1, <<>>, <<>>, max_labels, cpx)

\* faulty variant: an unknown mode falls back to "todas"
label_mode_norm_todas(modo) ==
    LET s == lower(strip(IF modo = None \/ modo = <<>> THEN <<>> ELSE modo))
    IN  IF s \notin {Todas, Inteligentes, Top} THEN Todas ELSE s

\* make_figure: (modo_etiquetas or "").strip().lower(), unknown -> "inteligentes"
label_mode_norm(modo) ==
    LET s == lower(strip(IF modo = None \/ modo = <<>> THEN <<>> ELSE modo))
    IN  IF s \notin {Todas, Inteligentes, Top} THEN Inteligentes ELSE s

-----------------------------------------------------------------------------
(* The selection pipeline                                                  *)

TickIdle ==
    /\ tick_rs = <<>>
    /\ tick_labels = <<>>

DeskIdle ==
    /\ dk_pc = "idle"
    /\ dk_theme = "dark"
    /\ dk_status = ""
    /\ dk_nfigs = 0
    /\ dk_open = {}
    /\ dk_canvas = 0
    /\ dk_attached = {}
    /\ dk_zoom_ax = 0
    /\ dk_ylim = 0
    /\ dk_scrolls = 0
    /\ dk_gen = [outcome |-> "none", status |-> "", dialog |-> FALSE]
    /\ dk_auto_timer = 0
    /\ dk_timers = 0
    /\ dk_conns = 0
    /\ dk_timer_ms = 0
    /\ dk_last_state = -1

CamIdle ==
    /\ cam_pc = "idle"
    /\ cam_pos = <<0, 0, 0>>
    /\ cam_target = <<0, 0, 0>>
    /\ cam_by = "none"
    /\ cam_clicks = 0

AltazIdle ==
    /\ ca_nombres = <<"None">>
    /\ ca_sky = <<>>
    /\ ca_altaz = <<>>
    /\ ca_table = <<>>
    /\ ca_pc = "idle"

LabelIdle ==
    /\ place_label = <<>>
    /\ place_label_user_edited = FALSE
    /\ place_label_source = "auto"
    /\ wl_widget = <<>>
    /\ wl_geo = FALSE
    /\ wl_left_empty = FALSE
    /\ wl_tried = FALSE
    /\ wl_value = <<>>
    /\ wl_pc = "idle"

AppIdle ==
    /\ DeskIdle
    /\ CamIdle
    /\ AltazIdle
    /\ LabelIdle

LaterIdle ==
    /\ TickIdle
    /\ AppIdle

EncIdle ==
    /\ enc_mag = 0
    /\ enc_alt = 0
    /\ enc_size = 0
    /\ enc_size3d = 0
    /\ enc_alpha = 0
    /\ enc_pc = {}

ProjIdle ==
    /\ prj_alt = 0
    /\ prj_az = 0
    /\ prj_polar = <<>>
    /\ prj_xyz = <<>>
    /\ prj_pc = {}

FigIdle ==
    /\ altaz_dict = <<>>
    /\ rmax = 900
    /\ auto_zoom = FALSE
    /\ zoom_margin_deg = 0
    /\ zoomed = {}
    /\ r_max = 0
    /\ rlim = 0
    /\ plotted = <<>>
    /\ pts3d = <<>>
    /\ pc3d = "idle"
    /\ open_figs = {}
    /\ fig_returned = {}

PlaceIdle ==
    /\ min_sep_px = 0
    /\ placed_bboxes = <<>>
    /\ annotations = {}
    /\ li = 0
    /\ ci = 0
    /\ best_text = 0
    /\ best_bbox = <<>>
    /\ best_score = 0
    /\ tried = <<>>

Init ==
    /\ ui_value = ""
    /\ modo_etiquetas \in RawModes
    /\ caller = "none"
    /\ label_mode = None
    /\ points \in AllPointLists(SelPositions, Mags)
    /\ max_etiquetas \in MaxLabelsValues
    /\ cluster_px \in ClusterPxValues
    /\ label_points = <<>>
    /\ pc = "input"
    /\ PlaceIdle
    /\ EncIdle
    /\ ProjIdle
    /\ FigIdle
    /\ LaterIdle

\* the web page renders the 2D map: the widget's value goes through
\* _ui_modo_etiquetas_to_core into make_figure
WebRender ==
    /\ pc = "input"
    /\ \E v \in UiValues :
          /\ ui_value' = v
          /\ modo_etiquetas' = _ui_modo_etiquetas_to_core(v)
    /\ caller' = "make_figure"
    /\ pc' = "make_figure"
    /\ UNCHANGED otherVars
    /\ UNCHANGED <<label_mode, points, max_etiquetas, cluster_px, label_points, placeVars>>
    /\ UNCHANGED laterVars

\* any other caller of make_figure, with its own modo_etiquetas
MakeFigureCall ==
    /\ pc = "input"
    /\ caller' = "make_figure"
    /\ pc' = "make_figure"
    /\ UNCHANGED otherVars
    /\ UNCHANGED <<ui_value, modo_etiquetas, label_mode, points, max_etiquetas,
                   cluster_px, label_points, placeVars>>
    /\ UNCHANGED laterVars

\* make_figure normalises the mode before calling _select_labels
MakeFigureNormalize ==
    /\ pc = "make_figure"
    /\ label_mode' = label_mode_norm(modo_etiquetas)
    /\ pc' = "select"
    /\ UNCHANGED otherVars
    /\ UNCHANGED <<ui_value, modo_etiquetas, caller, points, max_etiquetas,
                   cluster_px, label_points, placeVars>>
    /\ UNCHANGED laterVars

\* a caller that hands its mode to _select_labels as it is (as the test does)
DirectCall ==
    /\ pc = "input"
    /\ caller' = "direct"
    /\ label_mode' = modo_etiquetas
    /\ pc' = "select"
    /\ UNCHANGED otherVars
    /\ UNCHANGED <<ui_value, modo_etiquetas, points, max_etiquetas,
                   cluster_px, label_points, placeVars>>
    /\ UNCHANGED laterVars

\* faulty variant: points.sort(...) for sorted(points, ...), the caller's list
\* is reordered
SelectLabelsCall_inplace ==
    /\ pc = "select"
    /\ label_points' = _select_labels(points, label_mode, max_etiquetas, cluster_px)
    /\ points' = IF label_mode = Todas THEN points ELSE sorted_by_mag(points)
    /\ pc' = "selected"
    /\ UNCHANGED <<ui_value, modo_etiquetas, caller, label_mode, max_etiquetas,
                   cluster_px, placeVars, otherVars, laterVars>>

SelectLabelsCall ==
    /\ pc = "select"
    /\ label_points' = _select_labels(points, label_mode, max_etiquetas, cluster_px)
    /\ pc' = "selected"
    /\ UNCHANGED otherVars
    /\ UNCHANGED <<selVars, placeVars>>
    /\ UNCHANGED laterVars

Next ==
    \/ WebRender
    \/ MakeFigureCall
    \/ MakeFigureNormalize
    \/ DirectCall
    \/ SelectLabelsCall

Spec == Init /\ [][Next]_vars

-----------------------------------------------------------------------------
(* Properties of the selection                                             *)

Selected == pc = "selected"

SmartMode == label_mode \notin {Todas, Top}

\* squared screen distance of two points
Dist2(p, q) ==
    LET a == transData(p.theta, p.r)
        b == transData(q.theta, q.r)
    IN  (a[1] - b[1]) * (a[1] - b[1]) + (a[2] - b[2]) * (a[2] - b[2])

Returned(p) == \E j \in 1..Len(label_points) : label_points[j] = p

\* position of a point in the input list (names are unique)
InputIndex(p) == CHOOSE i \in 1..Len(points) : points[i] = p

\* C1: with max_labels <= 0 (zero and every negative value) _select_labels
\* returns the empty list in the modes "top" and "inteligentes", whatever the
\* points.
C1_EmptyWhenMaxLabelsNotPositive ==
    (Selected /\ label_mode \in {Top, Inteligentes} /\ max_etiquetas <= 0)
        => label_points = <<>>

\* C2: in the smart mode any two distinct returned points are strictly more
\* than cluster_px apart on screen (cluster_px >= 0).
C2_SmartLabelsApart ==
    (Selected /\ SmartMode /\ cluster_px >= 0)
        => \A i, j \in 1..Len(label_points) :
              i < j => Dist2(label_points[i], label_points[j]) > cluster_px * cluster_px

\* two labels were returned although a point was dropped for being exactly
\* cluster_px > 0 away from a returned one
C2_Witness ==
    /\ Selected /\ SmartMode
    /\ cluster_px > 0
    /\ Len(label_points) >= 2
    /\ \E i \in 1..Len(points) :
          /\ ~Returned(points[i])
          /\ \E j \in 1..Len(label_points) :
                Dist2(points[i], label_points[j]) = cluster_px * cluster_px

\* C3: in the smart mode, with cluster_px >= 0, when fewer than max_labels
\* labels were returned, every point that was not returned is within
\* cluster_px of a returned point
\* that is at least as bright; and the two points of test_label_clustering
\* (magnitudes -4.0 and 1.0, cluster_px = 50, max_labels = 5) give exactly one
\* label, the one of magnitude -4.0.
C3_DroppedNearBrighter ==
    /\ (Selected /\ SmartMode /\ Len(label_points) < max_etiquetas)
          => \A i \in 1..Len(points) :
                ~Returned(points[i]) =>
                    \E j \in 1..Len(label_points) :
                        /\ Dist2(points[i], label_points[j]) <= cluster_px * cluster_px
                        /\ label_points[j].mag <= points[i].mag
    /\ (/\ Selected /\ SmartMode
        /\ Len(points) = 2
        /\ {points[1].mag, points[2].mag} = {-4, 1}
        /\ {<<points[1].theta, points[1].r>>, <<points[2].theta, points[2].r>>}
              = {<<50, 400>>, <<51, 401>>}
        /\ cluster_px = 50 /\ max_etiquetas = 5)
          => /\ Len(label_points) = 1
             /\ label_points[1].mag = -4

\* the scenario of test_label_clustering with the fainter point first in the input
C3_Witness ==
    /\ Selected /\ label_mode = Inteligentes
    /\ Len(points) = 2
    /\ points[1].mag = 1 /\ points[2].mag = -4
    /\ <<points[1].theta, points[1].r>> = <<51, 401>>
    /\ <<points[2].theta, points[2].r>> = <<50, 400>>
    /\ cluster_px = 50 /\ max_etiquetas = 5
    /\ label_points = <<points[2]>>

\* C4: in the mode "top" with max_labels >= 0 the result has exactly
\* min(max_labels, len(points)) points, they are points of the input of
\* smallest magnitude, in non-decreasing magnitude order, and points of equal
\* magnitude keep their input order.
C4_TopBrightestStable ==
    (Selected /\ label_mode = Top /\ max_etiquetas >= 0)
        => /\ Len(label_points) = Min(max_etiquetas, Len(points))
           /\ \A j \in 1..Len(label_points) :
                 \E i \in 1..Len(points) : points[i] = label_points[j]
           /\ \A i, j \in 1..Len(label_points) :
                 i < j => /\ label_points[i] # label_points[j]
                          /\ label_points[i].mag <= label_points[j].mag
                          /\ label_points[i].mag = label_points[j].mag
                                => InputIndex(label_points[i]) < InputIndex(label_points[j])
           /\ \A i \in 1..Len(points) :
                 ~Returned(points[i]) =>
                    \A j \in 1..Len(label_points) :
                        /\ label_points[j].mag <= points[i].mag
                        /\ label_points[j].mag = points[i].mag
                              => InputIndex(label_points[j]) < i

\* a cut inside a run of equal magnitudes that is not in sorted position
C4_Witness ==
    /\ Selected /\ label_mode = Top
    /\ max_etiquetas = 2
    /\ Len(points) = 3
    /\ points[1].mag = 1 /\ points[2].mag = 1 /\ points[3].mag = -4
    /\ label_points = <<points[3], points[1]>>

\* C5: in the mode "todas" the result is the input list, every point, in
\* input order and unchanged, whatever max_labels and cluster_px.
C5_TodasReturnsInput ==
    (Selected /\ label_mode = Todas) => label_points = points

\* all three points come back although max_labels is smaller
C5_Witness ==
    /\ Selected /\ label_mode = Todas
    /\ Len(points) = 3
    /\ max_etiquetas < Len(points)
    /\ Len(label_points) = 3

\* C6: for an empty list of points the result is the empty list in every
\* mode, the unknown ones included, for every max_labels and cluster_px.
C6_EmptyInEmptyOut ==
    (Selected /\ points = <<>>) => label_points = <<>>

\* an unknown mode string reached _select_labels with no points
C6_Witness ==
    /\ Selected /\ points = <<>>
    /\ label_mode = <<"s","m","a","r","t">>
    /\ label_points = <<>>

\* C7: an unrecognised mode is treated as the smart mode: make_figure maps
\* None, "" and every string that is not one of the three modes after strip
\* and lower to "inteligentes", _select_labels runs the smart algorithm for
\* every mode other than "todas" and "top", and the web UI's mapping sends an
\* unknown widget value to "inteligentes".
C7_UnknownModeIsSmart ==
    /\ (caller = "make_figure" /\ pc \in {"select", "selected"})
          => /\ label_mode \in {Todas, Inteligentes, Top}
             /\ modo_etiquetas \in {None, <<>>, <<"s","m","a","r","t">>}
                   => label_mode = Inteligentes
             /\ modo_etiquetas = <<" ","T","O","P"," ">> => label_mode = Top
             /\ modo_etiquetas = <<"T","o","d","a","s">> => label_mode = Todas
    /\ (Selected /\ SmartMode)
          => label_points = smart_loop(sorted_by_mag(points), 1, <<>>, <<>>,
                                       max_etiquetas, cluster_px)
    /\ (ui_value \notin {"", "Inteligentes", "Todas", "Top (más brillantes)"})
          => modo_etiquetas = Inteligentes

\* make_figure got an unknown string and the smart algorithm dropped a point
C7_Witness ==
    /\ Selected /\ caller = "make_figure"
    /\ modo_etiquetas = <<"s","m","a","r","t">>
    /\ label_mode = Inteligentes
    /\ max_etiquetas = 5
    /\ Len(points) = 3
    /\ Len(label_points) = 2

-----------------------------------------------------------------------------
(* core/sky_core.py: label placement                                       *)
(* A box is <<x0, y0, x1, y1>> in pixels.  The figure is taken at 72 dpi,  *)
(* where one point of "offset points" is one pixel.                        *)

\* (theta, r) of the labels to place: two neighbours 10 px apart and two
\* positions that are hundreds of pixels from them and from each other
PlacePositions == {<<50, 400>>, <<50, 401>>, <<350, 400>>, <<50, 440>>}

\* min_label_sep_px: none, 5, the default 10, and 20
MinSepValues == {0, 5, 10, 20}

candidates ==
    << <<12, 8>>, <<12, -8>>, <<-12, 8>>, <<-12, -8>>,
       <<0, 12>>, <<0, -12>>,
       <<18, 0>>, <<-18, 0>>,
       <<18, 10>>, <<18, -10>>, <<-18, 10>>, <<-18, -10>> >>

\* rendered width of a label at fontsize 10.5: 8 px per character
TextWidth(name) ==
    CASE name = "Venus" -> 40
      [] name = "Marte" -> 40
      [] name = "Luna" -> 32
      [] name = "Saturno" -> 56
      [] name = "Urano" -> 40
      [] OTHER -> 48

\* rendered height of a line of text at fontsize 10.5
TextHeight == 14

\* ax.annotate(..., xytext=(dx, dy), textcoords="offset points", ha=ha,
\* va="center") followed by txt.get_window_extent()
window_extent(p, dx, dy) ==
    LET xy == transData(p.theta, p.r)
        ha == IF dx > 0 THEN "left" ELSE IF dx < 0 THEN "right" ELSE "center"
        w  == TextWidth(p.name)
        x0 == IF ha = "left" THEN xy[1] + dx
              ELSE IF ha = "right" THEN xy[1] + dx - w
              ELSE xy[1] + dx - (w \div 2)
        y0 == xy[2] + dy - (TextHeight \div 2)
    IN  <<x0, y0, x0 + w, y0 + TextHeight>>

\* faulty variant: the test for disjoint boxes is left out
_overlap_area_unguarded(a, b) ==
    LET x0 == Max(a[1], b[1])
        y0 == Max(a[2], b[2])
        x1 == Min(a[3], b[3])
        y1 == Min(a[4], b[4])
    IN  (x1 - x0) * (y1 - y0)

_overlap_area(a, b) ==
    LET x0 == Max(a[1], b[1])
        y0 == Max(a[2], b[2])
        x1 == Min(a[3], b[3])
        y1 == Min(a[4], b[4])
    IN  IF x1 <= x0 \/ y1 <= y0 THEN 0 ELSE (x1 - x0) * (y1 - y0)

_inflate_bbox(bb, pad_px) ==
    <<bb[1] - pad_px, bb[2] - pad_px, bb[3] + pad_px, bb[4] + pad_px>>

\* score = 0.0; for prev in placed_bboxes: score += _overlap_area(bb2, prev)
RECURSIVE score_of(_, _)
score_of(bb2, placed) ==
    IF placed = <<>> THEN 0
    ELSE _overlap_area(bb2, Head(placed)) + score_of(bb2, Tail(placed))

\* the inflated box of label p at candidate c
candidate_box(p, c, pad_px) ==
    _inflate_bbox(window_extent(p, candidates[c][1], candidates[c][2]), pad_px)

\* faulty variant: "<=" for "<", a later candidate of equal score replaces the best
is_better_or_equal(has_best, score, best) == ~has_best \/ score <= best

\* "best_score is None or score < best_score"; best_text, best_bbox and
\* best_score are None together, which best_text = 0 stands for
is_better(has_best, score, best) == ~has_best \/ score < best

InitPlace ==
    /\ ui_value = ""
    /\ modo_etiquetas = Inteligentes
    /\ caller = "make_figure"
    /\ label_mode = Inteligentes
    /\ points = <<>>
    /\ max_etiquetas = 6
    /\ cluster_px = 20
    /\ label_points \in AllPointLists(PlacePositions, {1})
    /\ pc = "place"
    /\ min_sep_px \in MinSepValues
    /\ placed_bboxes = <<>>
    /\ annotations = {}
    /\ li = 0
    /\ ci = 0
    /\ best_text = 0
    /\ best_bbox = <<>>
    /\ best_score = 0
    /\ tried = <<>>
    /\ EncIdle
    /\ ProjIdle
    /\ FigIdle
    /\ LaterIdle

\* entry: placed_bboxes = [], the canvas is drawn, the outer loop starts
PlaceBegin ==
    /\ pc = "place"
    /\ placed_bboxes' = <<>>
    /\ li' = 1
    /\ pc' = "label"
    /\ UNCHANGED otherVars
    /\ UNCHANGED <<selVars, label_points, min_sep_px, annotations, ci,
                   best_text, best_bbox, best_score, tried>>
    /\ UNCHANGED laterVars

\* "for p in label_points": the next label, or the end of the function
NextLabel ==
    /\ pc = "label"
    /\ IF li > Len(label_points)
       THEN /\ pc' = "placed"
            /\ UNCHANGED <<ci, best_text, best_bbox, best_score>>
       ELSE /\ best_text' = 0
            /\ best_bbox' = <<>>
            /\ best_score' = 0
            /\ ci' = 1
            /\ pc' = "cand"
    /\ UNCHANGED otherVars
    /\ UNCHANGED <<selVars, label_points, min_sep_px, placed_bboxes,
                   annotations, li, tried>>
    /\ UNCHANGED laterVars

\* faulty variant: the annotation that stops being the best is not removed
TryCandidate_leak ==
    /\ pc = "cand"
    /\ LET txt    == [label |-> li, cand |-> ci]
           bb2    == candidate_box(label_points[li], ci, min_sep_px)
           score  == score_of(bb2, placed_bboxes)
           better == is_better(best_text # 0, score, best_score)
           best   == IF better THEN score ELSE best_score
       IN  /\ annotations' =
                 IF better
                 THEN annotations \cup {txt}
                 ELSE (annotations \cup {txt}) \ {txt}
           /\ best_text' = IF better THEN ci ELSE best_text
           /\ best_bbox' = IF better THEN bb2 ELSE best_bbox
           /\ best_score' = best
           /\ ci' = ci + 1
           /\ pc' = IF best = 0 \/ ci = Len(candidates) THEN "commit" ELSE "cand"
    /\ UNCHANGED otherVars
    /\ UNCHANGED <<selVars, label_points, min_sep_px, placed_bboxes, li, tried>>
    /\ UNCHANGED laterVars

\* one pass of "for (dx, dy) in candidates"
TryCandidate ==
    /\ pc = "cand"
    /\ LET txt    == [label |-> li, cand |-> ci]
           bb2    == candidate_box(label_points[li], ci, min_sep_px)
           score  == score_of(bb2, placed_bboxes)
           better == is_better(best_text # 0, score, best_score)
           best   == IF better THEN score ELSE best_score
       IN  /\ annotations' =
                 IF better
                 THEN (annotations \ {[label |-> li, cand |-> best_text]}) \cup {txt}
                 ELSE (annotations \cup {txt}) \ {txt}
           /\ best_text' = IF better THEN ci ELSE best_text
           /\ best_bbox' = IF better THEN bb2 ELSE best_bbox
           /\ best_score' = best
           /\ ci' = ci + 1
           /\ pc' = IF best = 0 \/ ci = Len(candidates) THEN "commit" ELSE "cand"
    /\ UNCHANGED otherVars
    /\ UNCHANGED <<selVars, label_points, min_sep_px, placed_bboxes, li, tried>>
    /\ UNCHANGED laterVars

\* after the inner loop: the best box is appended to placed_bboxes
Commit ==
    /\ pc = "commit"
    /\ placed_bboxes' = IF best_text # 0 /\ best_bbox # <<>>
                        THEN Append(placed_bboxes, best_bbox)
                        ELSE placed_bboxes
    /\ tried' = Append(tried, ci - 1)
    /\ li' = li + 1
    /\ pc' = "label"
    /\ UNCHANGED otherVars
    /\ UNCHANGED <<selVars, label_points, min_sep_px, annotations, ci,
                   best_text, best_bbox, best_score>>
    /\ UNCHANGED laterVars

NextPlace ==
    \/ PlaceBegin
    \/ NextLabel
    \/ TryCandidate
    \/ Commit

SpecPlace == InitPlace /\ [][NextPlace]_vars

\* the function runs to its end once called: nothing suspends it
FairSpecPlace == SpecPlace /\ WF_vars(NextPlace)

-----------------------------------------------------------------------------
(* Properties of the placement                                             *)

NCand == Len(candidates)

AnnotationsOf(k) == { a \in annotations : a.label = k }

\* the candidate of label k's annotation
ChosenCand(k) == CHOOSE c \in 1..NCand : [label |-> k, cand |-> c] \in annotations

\* total overlap of label k at candidate c against the boxes placed before it
ScoreAt(k, c) ==
    score_of(candidate_box(label_points[k], c, min_sep_px),
             SubSeq(placed_bboxes, 1, k - 1))

\* two boxes that share no area
Disjoint(a, b) == a[3] <= b[1] \/ b[3] <= a[1] \/ a[4] <= b[2] \/ b[4] <= a[2]

\* no candidate box of p can intersect a candidate box of q
FarApart(p, q) ==
    \A c1, c2 \in 1..NCand :
        Disjoint(candidate_box(p, c1, min_sep_px), candidate_box(q, c2, min_sep_px))

\* every label before the current one has one annotation and one box, the
\* current one has the best annotation so far and nothing else
OneAnnotationPerLabel ==
    /\ pc = "placed" =>
          /\ Cardinality(annotations) = Len(label_points)
          /\ Len(placed_bboxes) = Len(label_points)
          /\ \A k \in 1..Len(label_points) : Cardinality(AnnotationsOf(k)) = 1
    /\ pc \in {"label", "cand", "commit"} =>
          /\ Len(placed_bboxes) = li - 1
          /\ \A k \in 1..(li - 1) : Cardinality(AnnotationsOf(k)) = 1
          /\ \A a \in annotations : a.label <= li
          /\ pc = "label" => \A a \in annotations : a.label < li
          /\ pc \in {"cand", "commit"} =>
                AnnotationsOf(li) =
                    IF best_text = 0 THEN {} ELSE {[label |-> li, cand |-> best_text]}

\* C8: _place_labels_non_overlapping always terminates, and for every label
\* it leaves exactly one annotation on the axes (every other candidate tried
\* is removed) and appends exactly one inflated box, also when every
\* candidate overlaps: at the end there are as many annotations and as many
\* placed boxes as input labels.
C8_OnePlacementPerLabel ==
    /\ []OneAnnotationPerLabel
    /\ <>(pc = "placed")

\* the end of a call with three labels, one of which found every one of its
\* twelve candidates overlapping
C8_Witness ==
    /\ pc = "placed"
    /\ Len(label_points) = 3
    /\ Cardinality(annotations) = 3
    /\ \E k \in 1..3 :
          /\ tried[k] = NCand
          /\ \A c \in 1..NCand : ScoreAt(k, c) > 0

\* C9: the committed offset of a label is the first candidate, in the order
\* of the list, whose total overlap against the boxes placed before equals
\* the minimum over all twelve; and when some candidate has overlap 0 the
\* search stops at the first such candidate, none after it being evaluated.
C9_FirstMinimalCandidate ==
    \A k \in 1..Len(tried) :
        /\ AnnotationsOf(k) # {}
        /\ LET c == ChosenCand(k)
           IN  /\ \A d \in 1..NCand : ScoreAt(k, c) <= ScoreAt(k, d)
               /\ \A d \in 1..(c - 1) : ScoreAt(k, d) > ScoreAt(k, c)
               /\ placed_bboxes[k] = candidate_box(label_points[k], c, min_sep_px)
               /\ (\E d \in 1..NCand : ScoreAt(k, d) = 0) => tried[k] = c
               /\ (\A d \in 1..NCand : ScoreAt(k, d) > 0) => tried[k] = NCand

\* one label stopped early at a later candidate than the first, another tried
\* all twelve and kept one that ties with a later candidate
C9_Witness ==
    /\ pc = "placed"
    /\ \E k \in 1..Len(tried) : tried[k] > 1 /\ tried[k] < NCand
    /\ \E k \in 1..Len(tried) :
          /\ tried[k] = NCand
          /\ ScoreAt(k, ChosenCand(k)) > 0
          /\ \E d \in (ChosenCand(k) + 1)..NCand : ScoreAt(k, d) = ScoreAt(k, ChosenCand(k))

\* C10: when the labels are pairwise so far apart that no candidate box of
\* one can intersect a candidate box of another, every label is committed
\* at the first offset, (12, 8); and the first label processed always gets
\* (12, 8), the placed list being empty.
C10_FarLabelsGetFirstOffset ==
    /\ candidates[1] = <<12, 8>>
    /\ (/\ pc = "placed"
        /\ \A i, j \in 1..Len(label_points) :
              i # j => FarApart(label_points[i], label_points[j]))
          => \A k \in 1..Len(label_points) :
                annotations \cap {[label |-> k, cand |-> c] : c \in 1..NCand}
                    = {[label |-> k, cand |-> 1]}
    /\ Len(tried) >= 1 =>
          /\ AnnotationsOf(1) = {[label |-> 1, cand |-> 1]}
          /\ tried[1] = 1

\* three labels far from each other, with the largest separation asked for
C10_Witness ==
    /\ pc = "placed"
    /\ Len(label_points) = 3
    /\ min_sep_px = 20
    /\ \A i, j \in 1..3 : i # j => FarApart(label_points[i], label_points[j])
    /\ annotations = {[label |-> k, cand |-> 1] : k \in 1..3}

-----------------------------------------------------------------------------
(* Marker size and opacity: _size_from_mag, _alpha_from_alt (sky_core.py)  *)
(* and the size expression of _points_from_altaz (sky_3d.py).  Magnitudes  *)
(* and altitudes are in tenths, the 2D size in tenths, the 3D size in      *)
(* hundredths and alpha in ten-thousandths, so that every product of the   *)
(* code is exact.                                                          *)

\* -30.0 .. 20.0 in whole magnitudes, and magnitudes of the MAGS table
MagValues == { 10 * k : k \in -30..20 } \cup {-267, -43, 5, 57}

\* -90 .. 90 degrees in steps of 15, and a tenth of a degree around 0
AltValues == { 150 * k : k \in -6..6 } \cup {-1, 1}

\* np.clip(x, lo, hi)
clip(x, lo, hi) == Min(Max(x, lo), hi)

\* faulty variant: the size grows with the magnitude
_size_from_mag_rising(mag) == clip(2600 + mag * 32, 260, 5200)

\* size = 260 - mag * 32.0, clipped to [26, 520]
_size_from_mag(mag) == clip(2600 - mag * 32, 260, 5200)

\* size = clip(22 - mag * 2.8, 6.0, 36.0)
size3d(mag) == clip(2200 - mag * 28, 600, 3600)

\* faulty variant: "<" for "<=", altitude 0 counts as above the horizon
_alpha_from_alt_strict(alt_deg) ==
    IF alt_deg < 0 THEN 0 ELSE clip(5500 + 5 * alt_deg, 5500, 10000)

\* 0.0 at or below the horizon, else 0.55 + 0.45 * (alt / 90) clipped to [0.55, 1]
_alpha_from_alt(alt_deg) ==
    IF alt_deg <= 0 THEN 0 ELSE clip(5500 + 5 * alt_deg, 5500, 10000)

SelIdle ==
    /\ ui_value = ""
    /\ modo_etiquetas = Inteligentes
    /\ caller = "none"
    /\ label_mode = None
    /\ points = <<>>
    /\ max_etiquetas = 6
    /\ cluster_px = 20
    /\ label_points = <<>>

InitEncode ==
    /\ enc_mag \in MagValues
    /\ enc_alt \in AltValues
    /\ enc_size = 0
    /\ enc_size3d = 0
    /\ enc_alpha = 0
    /\ enc_pc = {}
    /\ pc = "encode"
    /\ SelIdle
    /\ PlaceIdle
    /\ ProjIdle
    /\ FigIdle
    /\ LaterIdle

SizeFromMag ==
    /\ pc = "encode"
    /\ "size" \notin enc_pc
    /\ enc_size' = _size_from_mag(enc_mag)
    /\ enc_pc' = enc_pc \cup {"size"}
    /\ UNCHANGED <<enc_mag, enc_alt, enc_size3d, enc_alpha>>
    /\ UNCHANGED <<selVars, label_points, pc, placeVars, projVars, figVars>>
    /\ UNCHANGED laterVars

Size3D ==
    /\ pc = "encode"
    /\ "size3d" \notin enc_pc
    /\ enc_size3d' = size3d(enc_mag)
    /\ enc_pc' = enc_pc \cup {"size3d"}
    /\ UNCHANGED <<enc_mag, enc_alt, enc_size, enc_alpha>>
    /\ UNCHANGED <<selVars, label_points, pc, placeVars, projVars, figVars>>
    /\ UNCHANGED laterVars

AlphaFromAlt ==
    /\ pc = "encode"
    /\ "alpha" \notin enc_pc
    /\ enc_alpha' = _alpha_from_alt(enc_alt)
    /\ enc_pc' = enc_pc \cup {"alpha"}
    /\ UNCHANGED <<enc_mag, enc_alt, enc_size, enc_size3d>>
    /\ UNCHANGED <<selVars, label_points, pc, placeVars, projVars, figVars>>
    /\ UNCHANGED laterVars

NextEncode ==
    \/ SizeFromMag
    \/ Size3D
    \/ AlphaFromAlt

SpecEncode == InitEncode /\ [][NextEncode]_vars

-----------------------------------------------------------------------------
(* Properties of the size and of the opacity                               *)

\* C14: _size_from_mag does not increase with the magnitude, lies in
\* [26, 520], is 520 at magnitude -30 and 26 at magnitude 20; the 3D size
\* has the same properties with range [6, 36].
C14_SizeMonotoneClipped ==
    /\ "size" \in enc_pc =>
          /\ enc_size >= 260 /\ enc_size <= 5200
          /\ \A m \in MagValues : enc_mag < m => enc_size >= _size_from_mag(m)
          /\ enc_mag = -300 => enc_size = 5200
          /\ enc_mag = 200 => enc_size = 260
    /\ "size3d" \in enc_pc =>
          /\ enc_size3d >= 600 /\ enc_size3d <= 3600
          /\ \A m \in MagValues : enc_mag < m => enc_size3d >= size3d(m)
          /\ enc_mag = -300 => enc_size3d = 3600
          /\ enc_mag = 200 => enc_size3d = 600

\* both sizes computed for Venus (-4.3), strictly inside both ranges
C14_Witness ==
    /\ {"size", "size3d"} \subseteq enc_pc
    /\ enc_mag = -43
    /\ enc_size = 3976
    /\ enc_size3d = 3404

\* C15: _alpha_from_alt is exactly 0 for every altitude <= 0, exactly 1 at
\* altitude 90, in [0.55, 1] for every altitude > 0 (above 0.55 at 45), and
\* does not decrease with the altitude.
C15_AlphaFromAlt ==
    "alpha" \in enc_pc =>
        /\ enc_alt <= 0 => enc_alpha = 0
        /\ enc_alt = 900 => enc_alpha = 10000
        /\ enc_alt > 0 => enc_alpha >= 5500 /\ enc_alpha <= 10000
        /\ enc_alt = 450 => enc_alpha > 5500
        /\ \A a \in AltValues : enc_alt <= a => enc_alpha <= _alpha_from_alt(a)

\* the opacity computed at the horizon itself
C15_Witness ==
    /\ "alpha" \in enc_pc
    /\ enc_alt = 0
    /\ enc_alpha = 0

-----------------------------------------------------------------------------
(* Projections: the points loop of make_figure (sky_core.py) and           *)
(* _points_from_altaz (sky_3d.py).  Altitudes are in tenths of a degree,   *)
(* azimuths in whole degrees; sines, cosines and the coordinates x, y, z   *)
(* are in ten-thousandths, rounded to the nearest.                         *)

\* np.sin(np.deg2rad(d)) for d = 0, 5, .. 90
SinTable ==
    <<0, 872, 1736, 2588, 3420, 4226, 5000, 5736, 6428, 7071,
      7660, 8192, 8660, 9063, 9397, 9659, 9848, 9962, 10000>>

\* np.sin(np.deg2rad(d)), d a multiple of 5 degrees
sin_deg(d) ==
    LET m == d % 360
        T(a) == SinTable[(a \div 5) + 1]
    IN  IF m <= 90 THEN T(m)
        ELSE IF m <= 180 THEN T(180 - m)
        ELSE IF m <= 270 THEN 0 - T(m - 180)
        ELSE 0 - T(360 - m)

\* np.cos(np.deg2rad(d))
cos_deg(d) == sin_deg(d + 90)

\* the product of two ten-thousandths, rounded
mul(a, b) == (a * b + 5000) \div 10000

\* np.deg2rad(deg) in hundredths of a radian
deg2rad(deg) == (deg * 31416) \div 18000

\* faulty variant: the angle reduced to [0, 2 pi)
az_rad_reduced(az) == ((az % 360) * 31416) \div 18000

\* c.az.rad in hundredths of a radian: the angle as stored, not reduced
az_rad(az) == (az * 31416) \div 18000

\* MAGS.get(name, 1.0), in tenths
MAGS ==
    [n \in {"Sol", "Luna", "Mercurio", "Venus", "Marte", "Júpiter",
            "Saturno", "Urano", "Neptuno"} |->
        CASE n = "Sol" -> -267
          [] n = "Luna" -> -120
          [] n = "Mercurio" -> 0
          [] n = "Venus" -> -43
          [] n = "Marte" -> 5
          [] n = "Júpiter" -> -27
          [] n = "Saturno" -> 8
          [] n = "Urano" -> 57
          [] n = "Neptuno" -> 78]

MAGS_get(name) == IF name \in DOMAIN MAGS THEN MAGS[name] ELSE 10

\* faulty variant: altitude 0 passes the filter
visible_or_horizon(c) == c.alt >= 0

\* "if alt <= 0: continue"
visible(c) == c.alt > 0

\* theta = float(c.az.rad); r = 90.0 - alt
polar(alt, az) == <<az_rad(az), 900 - alt>>

\* one point of make_figure
point2d(c) ==
    [name |-> c.name, theta |-> polar(c.alt, c.az)[1], r |-> polar(c.alt, c.az)[2],
     mag |-> MAGS_get(c.name), alt |-> c.alt]

\* faulty variant: the horizontal components are not shortened by cos(alt)
xyz_no_cos(alt, az) == <<sin_deg(az), cos_deg(az), sin_deg(alt \div 10)>>

\* faulty variant: east and north exchanged
xyz_swapped(alt, az) ==
    <<mul(cos_deg(alt \div 10), cos_deg(az)),
      mul(cos_deg(alt \div 10), sin_deg(az)),
      sin_deg(alt \div 10)>>

\* x (east), y (north), z (up) on the hemisphere of radius 1
xyz(alt, az) ==
    <<mul(cos_deg(alt \div 10), sin_deg(az)),
      mul(cos_deg(alt \div 10), cos_deg(az)),
      sin_deg(alt \div 10)>>

\* one point of _points_from_altaz (the colour, a table lookup, is left out)
point3d(c) ==
    [name |-> c.name, x |-> xyz(c.alt, c.az)[1], y |-> xyz(c.alt, c.az)[2],
     z |-> xyz(c.alt, c.az)[3], mag |-> MAGS_get(c.name),
     size |-> size3d(MAGS_get(c.name)), alt |-> c.alt, az |-> c.az]

MapSeq(f(_), s) == [i \in 1..Len(s) |-> f(s[i])]

\* faulty variant: the 3D list keeps the objects on the horizon
_points_from_altaz_horizon(altaz) ==
    MapSeq(point3d, SelectSeq(altaz, visible_or_horizon))

_points_from_altaz(altaz) == MapSeq(point3d, SelectSeq(altaz, visible))

-----------------------------------------------------------------------------
(* make_figure up to ax.set_rlim: figure, visible points, zoom, scatter    *)

\* altitudes of the mappings: below, on and above the horizon, the zenith
FigAlts == {-100, 0, 50, 100, 700, 900}

ManualRmaxValues == {0, 500, 900, 1200}

ZoomMarginValues == {-60, 0, 60}

\* entry i of a mapping: the i-th name, azimuths a quarter turn apart
EntryAt(i, alt, ok) ==
    [name |-> Names[i], alt |-> alt, az |-> (90 * (i - 1)) % 360, valid |-> ok]

\* all mappings of at most MaxPoints entries
AltAzDicts(alts, oks) ==
    UNION { { [i \in 1..n |-> EntryAt(i, f[i][1], f[i][2])] :
                f \in [1..n -> alts \X oks] } : n \in 0..MaxPoints }

RECURSIVE SeqMin(_)
SeqMin(s) == IF Len(s) = 1 THEN Head(s) ELSE Min(Head(s), SeqMin(Tail(s)))

RECURSIVE SeqMax(_)
SeqMax(s) == IF Len(s) = 1 THEN Head(s) ELSE Max(Head(s), SeqMax(Tail(s)))

alt_of(p) == p.alt

\* faulty variant: the highest visible object sets the frame
alt_min_highest(pts) == SeqMax(MapSeq(alt_of, pts))

\* min(p["alt"] for p in points)
alt_min(pts) == SeqMin(MapSeq(alt_of, pts))

\* faulty variant: the margin is left out
auto_rmax_no_margin(pts, margin) == Max(180, Min(900, 900 - alt_min(pts)))

\* rmax = min(90.0, r_needed + zoom_margin_deg); rmax = max(18.0, rmax)
auto_rmax(pts, margin) == Max(180, Min(900, (900 - alt_min(pts)) + margin))

\* faulty variant: "if auto_zoom:" without "and points"
zoom_applies_unguarded(auto, pts) == auto

\* "if auto_zoom and points"
zoom_applies(auto, pts) == auto /\ pts # <<>>

InitFigure ==
    /\ altaz_dict \in AltAzDicts(FigAlts, {TRUE})
    /\ rmax \in ManualRmaxValues
    /\ auto_zoom \in BOOLEAN
    /\ zoom_margin_deg \in ZoomMarginValues
    /\ zoomed = {}
    /\ r_max = 0
    /\ rlim = 0
    /\ plotted = <<>>
    /\ pts3d = <<>>
    /\ pc3d = "idle"
    /\ open_figs = {}
    /\ fig_returned = {}
    /\ pc = "fig_start"
    /\ SelIdle
    /\ PlaceIdle
    /\ EncIdle
    /\ ProjIdle
    /\ LaterIdle

\* plt.figure registers a new figure in pyplot; the axes are set up
FigCreate ==
    /\ pc = "fig_start"
    /\ open_figs' = open_figs \cup {Cardinality(open_figs) + 1}
    /\ pc' = "fig_points"
    /\ UNCHANGED <<altaz_dict, rmax, auto_zoom, zoom_margin_deg, zoomed, r_max,
                   rlim, plotted, pts3d, pc3d, fig_returned>>
    /\ UNCHANGED <<selVars, label_points, placeVars, encVars, projVars>>
    /\ UNCHANGED laterVars

\* the points loop; an entry without a usable altitude or azimuth raises
FigBuildPoints ==
    /\ pc = "fig_points"
    /\ IF \E i \in 1..Len(altaz_dict) : ~altaz_dict[i].valid
       THEN /\ pc' = "raised"
            /\ UNCHANGED points
       ELSE /\ points' = MapSeq(point2d, SelectSeq(altaz_dict, visible))
            /\ pc' = "fig_zoom"
    /\ UNCHANGED <<ui_value, modo_etiquetas, caller, label_mode, max_etiquetas,
                   cluster_px, label_points, placeVars, encVars, projVars, figVars>>
    /\ UNCHANGED laterVars

\* auto-zoom and clamp; min() of an empty sequence raises ValueError
FigZoom ==
    /\ pc = "fig_zoom"
    /\ IF zoom_applies(auto_zoom, points)
       THEN IF points = <<>>
            THEN /\ pc' = "raised"
                 /\ UNCHANGED <<zoomed, r_max>>
            ELSE /\ zoomed' = { points[i].name : i \in 1..Len(points) }
                 /\ r_max' = clip(auto_rmax(points, zoom_margin_deg), 180, 900)
                 /\ pc' = "fig_plot"
       ELSE /\ zoomed' = {}
            /\ r_max' = clip(rmax, 180, 900)
            /\ pc' = "fig_plot"
    /\ UNCHANGED <<altaz_dict, rmax, auto_zoom, zoom_margin_deg, rlim, plotted,
                   pts3d, pc3d, open_figs, fig_returned>>
    /\ UNCHANGED <<selVars, label_points, placeVars, encVars, projVars>>
    /\ UNCHANGED laterVars

scatter_of(p) ==
    [name |-> p.name, theta |-> p.theta, r |-> p.r,
     s |-> _size_from_mag(p.mag), alpha |-> _alpha_from_alt(p.alt)]

\* np.linspace(0, rmax, 4), in thirtieths of a degree (rmax is in tenths)
linspace4(rmax_) == [k \in 1..4 |-> (k - 1) * rmax_]

\* f"{alt_lbl:.0f}°" for alt_lbl in thirtieths of a degree: the nearest
\* whole degree, a half going to the even one
fmt0(a) ==
    LET q == a \div 30
        m == a % 30
        n == IF m < 15 THEN q
             ELSE IF m > 15 THEN q + 1
             ELSE IF q % 2 = 0 THEN q ELSE q + 1
    IN  ToString(n) \o "°"

\* faulty variant: the outermost tick is "Horizonte" whatever the zoom
tick_label_edge(rr, rmax_) ==
    IF rr = 0 THEN "Zénit"
    ELSE IF rr >= 3 * rmax_ THEN "Horizonte"
    ELSE fmt0(2700 - rr)

\* the label of the tick at rr (thirtieths) for the limit rmax (tenths)
tick_label(rr, rmax_) ==
    IF rr = 0 THEN "Zénit"
    ELSE IF rr >= 3 * rmax_
         THEN IF rmax_ >= 895 THEN "Horizonte" ELSE fmt0(2700 - rr)
    ELSE fmt0(2700 - rr)

\* the scatter of every point, then ax.set_rlim(0, rmax) and the ticks
FigPlot ==
    /\ pc = "fig_plot"
    /\ plotted' = MapSeq(scatter_of, points)
    /\ rlim' = r_max
    /\ tick_rs' = linspace4(r_max)
    /\ tick_labels' = [k \in 1..4 |-> tick_label(linspace4(r_max)[k], r_max)]
    /\ pc' = "make_figure"
    /\ UNCHANGED <<altaz_dict, rmax, auto_zoom, zoom_margin_deg, zoomed, r_max,
                   pts3d, pc3d, open_figs, fig_returned>>
    /\ UNCHANGED <<selVars, label_points, placeVars, encVars, projVars, appVars>>

\* the 3D view's list of the same mapping
Points3D ==
    /\ pc3d = "idle"
    /\ IF \E i \in 1..Len(altaz_dict) : ~altaz_dict[i].valid
       THEN /\ pc3d' = "raised"
            /\ UNCHANGED pts3d
       ELSE /\ pts3d' = _points_from_altaz(altaz_dict)
            /\ pc3d' = "done"
    /\ UNCHANGED <<altaz_dict, rmax, auto_zoom, zoom_margin_deg, zoomed, r_max,
                   rlim, plotted, open_figs, fig_returned>>
    /\ UNCHANGED <<selVars, label_points, pc, placeVars, encVars, projVars>>
    /\ UNCHANGED laterVars

NextFigure ==
    \/ FigCreate
    \/ FigBuildPoints
    \/ FigZoom
    \/ FigPlot
    \/ Points3D

SpecFigure == InitFigure /\ [][NextFigure]_vars

-----------------------------------------------------------------------------
(* Properties of the zoom and of the visibility filter                     *)

VisibleEntries == { i \in 1..Len(altaz_dict) : altaz_dict[i].alt > 0 }

VisibleNames == { altaz_dict[i].name : i \in VisibleEntries }

\* the least altitude among the mapping's entries above the horizon
LeastAlt ==
    CHOOSE a \in { altaz_dict[i].alt : i \in VisibleEntries } :
        \A i \in VisibleEntries : a <= altaz_dict[i].alt

NamesOf(s) == { s[i].name : i \in 1..Len(s) }

ZoomDone == pc \in {"fig_plot", "make_figure"}

AxesDone == pc = "make_figure" /\ rlim # 0

AutoFormula ==
    (AxesDone /\ auto_zoom /\ VisibleEntries # {}) =>
        rlim = Max(180, Min(900, (900 - LeastAlt) + zoom_margin_deg))

\* C11 as stated: with auto_zoom and a visible point the radial limit is
\* max(18, min(90, (90 - alt_min) + margin)) whatever the manual rmax, and
\* margin 6 gives 90 with alt_min 10 and 26 with alt_min 70.
C11_AutoZoomExample90 ==
    /\ AutoFormula
    /\ (AxesDone /\ auto_zoom /\ VisibleEntries # {} /\ zoom_margin_deg = 60) =>
          /\ LeastAlt = 100 => rlim = 900
          /\ LeastAlt = 700 => rlim = 260

\* C11, amended: with auto_zoom and a visible point the radial limit is
\* max(18, min(90, (90 - alt_min) + margin)) whatever the manual rmax, and
\* margin 6 gives 86 with alt_min 10 and 26 with alt_min 70.
C11_AutoZoomRadius ==
    /\ AutoFormula
    /\ (AxesDone /\ auto_zoom /\ VisibleEntries # {} /\ zoom_margin_deg = 60) =>
          /\ LeastAlt = 100 => rlim = 860
          /\ LeastAlt = 700 => rlim = 260

\* lowest visible object at 10 degrees, margin 6, a manual rmax of 50
C11_Witness ==
    /\ AxesDone
    /\ auto_zoom
    /\ VisibleEntries # {}
    /\ LeastAlt = 100
    /\ zoom_margin_deg = 60
    /\ rmax = 500
    /\ rlim = 860

\* C12: without auto_zoom, or with auto_zoom and nothing above the horizon,
\* the manual rmax clamped to [18, 90] is used and nothing is raised; the
\* radial limit applied to the axes is in [18, 90] for every input.
C12_ManualClampNoRaise ==
    /\ pc = "raised" => \E i \in 1..Len(altaz_dict) : ~altaz_dict[i].valid
    /\ (ZoomDone /\ (~auto_zoom \/ VisibleEntries = {})) =>
          r_max = Max(180, Min(900, rmax))
    /\ ZoomDone => r_max >= 180 /\ r_max <= 900
    /\ AxesDone => rlim = r_max

\* auto-zoom asked for, objects given but none above the horizon, manual 120
C12_Witness ==
    /\ AxesDone
    /\ auto_zoom
    /\ altaz_dict # <<>>
    /\ VisibleEntries = {}
    /\ rmax = 1200
    /\ rlim = 900

\* C13: with auto_zoom and a margin >= 0 every plotted point has
\* r = 90 - alt <= r_max.
C13_VisibleInsideDisk ==
    (AxesDone /\ auto_zoom /\ zoom_margin_deg >= 0) =>
        \A k \in 1..Len(plotted) :
            /\ plotted[k].r <= rlim
            /\ \E i \in VisibleEntries :
                  /\ altaz_dict[i].name = plotted[k].name
                  /\ plotted[k].r = 900 - altaz_dict[i].alt

\* two objects plotted, the lower one exactly on the edge of a zoomed disk
C13_Witness ==
    /\ AxesDone
    /\ auto_zoom
    /\ zoom_margin_deg = 0
    /\ Len(plotted) >= 2
    /\ rlim < 900
    /\ \E k \in 1..Len(plotted) : plotted[k].r = rlim
    /\ \E k \in 1..Len(plotted) : plotted[k].r < rlim

\* C16: the objects that reach the scatter, the label selection and the
\* auto-zoom of make_figure, and the points of _points_from_altaz, are
\* exactly the objects with altitude > 0; both views show the same bodies.
C16_SameVisibleSet ==
    /\ pc \in {"fig_zoom", "fig_plot", "make_figure"} => NamesOf(points) = VisibleNames
    /\ (ZoomDone /\ auto_zoom) => zoomed = VisibleNames
    /\ AxesDone => NamesOf(plotted) = VisibleNames
    /\ pc3d = "done" => NamesOf(pts3d) = VisibleNames
    /\ (AxesDone /\ pc3d = "done") => NamesOf(plotted) = NamesOf(pts3d)

\* one object below, one on and one above the horizon, both views built
C16_Witness ==
    /\ AxesDone
    /\ pc3d = "done"
    /\ \E i \in 1..Len(altaz_dict) : altaz_dict[i].alt = 0
    /\ \E i \in 1..Len(altaz_dict) : altaz_dict[i].alt < 0
    /\ Len(plotted) = 1
    /\ Len(pts3d) = 1

-----------------------------------------------------------------------------
(* The two projections of one object, and the compass of both views        *)

\* -30 .. 90 degrees in steps of 15, and 5 degrees
PrjAlts == { 150 * k : k \in -2..6 } \cup {50}

\* 0 .. 360 degrees in steps of 15
PrjAzs == { 15 * k : k \in 0..24 }

\* addCardinal(txt, x, y): position (x, y, 0.02) of the 3D scene
cardinals3d ==
    [N |-> <<0, 10800, 200>>, E |-> <<10800, 0, 200>>,
     S |-> <<0, -10800, 200>>, O |-> <<-10800, 0, 200>>]

\* the horizon circle's vertex at angle th: (sin th, cos th, 0)
horizon(th) == <<sin_deg(th), cos_deg(th), 0>>

\* ax.text(np.deg2rad(deg), 92.0, lab): degrees of the 2D markers
cardinals2d == [N |-> 0, E |-> 90, S |-> 180, O |-> 270]

InitProject ==
    /\ prj_alt \in PrjAlts
    /\ prj_az \in PrjAzs
    /\ prj_polar = <<>>
    /\ prj_xyz = <<>>
    /\ prj_pc = {}
    /\ pc = "project"
    /\ SelIdle
    /\ PlaceIdle
    /\ EncIdle
    /\ FigIdle
    /\ LaterIdle

\* one pass of make_figure's points loop
Project2D ==
    /\ pc = "project"
    /\ "2d" \notin prj_pc
    /\ prj_polar' = IF visible([alt |-> prj_alt])
                    THEN polar(prj_alt, prj_az)
                    ELSE prj_polar
    /\ prj_pc' = prj_pc \cup {"2d"}
    /\ UNCHANGED <<prj_alt, prj_az, prj_xyz>>
    /\ UNCHANGED <<selVars, label_points, pc, placeVars, encVars, figVars>>
    /\ UNCHANGED laterVars

\* one pass of the loop of _points_from_altaz
Project3D ==
    /\ pc = "project"
    /\ "3d" \notin prj_pc
    /\ prj_xyz' = IF visible([alt |-> prj_alt])
                  THEN xyz(prj_alt, prj_az)
                  ELSE prj_xyz
    /\ prj_pc' = prj_pc \cup {"3d"}
    /\ UNCHANGED <<prj_alt, prj_az, prj_polar>>
    /\ UNCHANGED <<selVars, label_points, pc, placeVars, encVars, figVars>>
    /\ UNCHANGED laterVars

NextProject ==
    \/ Project2D
    \/ Project3D

SpecProject == InitProject /\ [][NextProject]_vars

-----------------------------------------------------------------------------
(* Properties of the projections                                           *)

Done2D == "2d" \in prj_pc /\ prj_alt > 0

Done3D == "3d" \in prj_pc /\ prj_alt > 0

Abs(a) == IF a >= 0 THEN a ELSE 0 - a

\* x^2 + y^2 + z^2 of a vector in ten-thousandths (1 is 10^8)
Norm2(v) == v[1] * v[1] + v[2] * v[2] + v[3] * v[3]

\* C17: for a visible object r = 90 - alt, in [0, 90), theta is the azimuth
\* in radians, (x, y, z) has norm 1 and z > 0, x and y have the signs of
\* sin(az) and cos(az) and shrink with cos(alt); altitude 45, azimuth 90
\* gives r = 45, x ~ 0.707, y ~ 0, z ~ 0.707.
C17_Projections ==
    /\ Done2D =>
          /\ prj_polar[2] = 900 - prj_alt
          /\ prj_polar[2] >= 0 /\ prj_polar[2] < 900
          /\ prj_alt = 900 => prj_polar[2] = 0
          /\ Abs(prj_polar[1] * 18000 - prj_az * 31416) < 18000
          /\ (prj_alt = 450 /\ prj_az = 90) => prj_polar[2] = 450
    /\ Done3D =>
          /\ Abs(Norm2(prj_xyz) - 100000000) <= 20000
          /\ prj_xyz[3] > 0
          /\ prj_xyz[3] = sin_deg(prj_alt \div 10)
          /\ prj_xyz[1] * sin_deg(prj_az) >= 0
          /\ prj_xyz[2] * cos_deg(prj_az) >= 0
          /\ (prj_alt = 450 /\ prj_az = 90) => prj_xyz = <<7071, 0, 7071>>

\* altitude 45, azimuth 90, both projections computed
C17_Witness ==
    /\ Done2D
    /\ Done3D
    /\ prj_alt = 450
    /\ prj_az = 90
    /\ prj_polar[2] = 450
    /\ prj_xyz = <<7071, 0, 7071>>

MarkerOf(az) ==
    CASE az = 0 -> "N" [] az = 90 -> "E" [] az = 180 -> "S" [] az = 270 -> "O"

\* u and v point the same way in the horizontal plane
SameDirection(u, v) ==
    /\ u[1] * v[2] - u[2] * v[1] = 0
    /\ u[1] * v[1] + u[2] * v[2] > 0

\* C19: an object below the zenith at azimuth 0, 90, 180, 270 lies in the
\* horizontal direction of the 3D marker N, E, S, O (N on +Y, E on +X, S on
\* -Y, O on -X) with z > 0 up; the horizon circle is in the plane z = 0 and
\* is where the same mapping puts altitude 0; the 2D markers sit at the
\* theta an object of that azimuth gets.
C19_CompassMatchesObjects ==
    /\ cardinals3d.N[1] = 0 /\ cardinals3d.N[2] > 0
    /\ cardinals3d.E[1] > 0 /\ cardinals3d.E[2] = 0
    /\ cardinals3d.S[1] = 0 /\ cardinals3d.S[2] < 0
    /\ cardinals3d.O[1] < 0 /\ cardinals3d.O[2] = 0
    /\ (Done3D /\ prj_alt < 900 /\ prj_az \in {0, 90, 180, 270}) =>
          /\ SameDirection(prj_xyz, cardinals3d[MarkerOf(prj_az)])
          /\ prj_xyz[3] > 0
    /\ Done3D =>
          /\ horizon(prj_az)[3] = 0
          /\ horizon(prj_az) = xyz(0, prj_az)
    /\ (Done2D /\ prj_az \in {0, 90, 180, 270}) =>
          prj_polar[1] = deg2rad(cardinals2d[MarkerOf(prj_az)])

\* an object 5 degrees above the horizon due east, in both views
C19_Witness ==
    /\ Done2D
    /\ Done3D
    /\ prj_alt = 50
    /\ prj_az = 90
    /\ prj_xyz = <<9962, 0, 872>>
    /\ prj_polar = <<157, 850>>

-----------------------------------------------------------------------------
(* make_figure from the first line to the return, with its failures: an    *)
(* entry whose altitude or azimuth cannot be read raises in the points     *)
(* loop, and fig.canvas.draw() can raise while a candidate label is on the *)
(* axes.  make_figure has no try/finally and never closes its figure.      *)

\* on the horizon, 10 and 10.3 degrees (labels that collide), 70 degrees
RenderAlts == {0, 100, 103, 700}

\* entry i of a mapping, azimuth given
EntryAz(i, alt, az, ok) ==
    [name |-> Names[i], alt |-> alt, az |-> az, valid |-> ok]

\* all mappings of at most MaxPoints entries over the given azimuths
AltAzDictsAz(alts, azs, oks) ==
    UNION { { [i \in 1..n |-> EntryAz(i, f[i][1], f[i][2], f[i][3])] :
                f \in [1..n -> alts \X azs \X oks] } : n \in 0..MaxPoints }

InitRender ==
    /\ altaz_dict \in AltAzDictsAz(RenderAlts, {0}, BOOLEAN)
    /\ rmax = 900
    /\ auto_zoom \in BOOLEAN
    /\ zoom_margin_deg = 60
    /\ zoomed = {}
    /\ r_max = 0
    /\ rlim = 0
    /\ plotted = <<>>
    /\ pts3d = <<>>
    /\ pc3d = "idle"
    /\ open_figs = {}
    /\ fig_returned = {}
    /\ ui_value = ""
    /\ modo_etiquetas \in {Todas, Inteligentes, Top}
    /\ caller = "make_figure"
    /\ label_mode = None
    /\ points = <<>>
    /\ max_etiquetas = 6
    /\ cluster_px = 20
    /\ label_points = <<>>
    /\ pc = "fig_start"
    /\ min_sep_px = 10
    /\ placed_bboxes = <<>>
    /\ annotations = {}
    /\ li = 0
    /\ ci = 0
    /\ best_text = 0
    /\ best_bbox = <<>>
    /\ best_score = 0
    /\ tried = <<>>
    /\ EncIdle
    /\ ProjIdle
    /\ LaterIdle

\* make_figure hands the selected labels to _place_labels_non_overlapping
PlaceLabelsCall ==
    /\ pc = "selected"
    /\ caller = "make_figure"
    /\ pc' = "place"
    /\ UNCHANGED <<selVars, label_points, placeVars, otherVars>>
    /\ UNCHANGED laterVars

\* fig.canvas.draw() raises with the candidate annotation just added to the
\* axes; the exception leaves _place_labels_non_overlapping and make_figure
DrawFails ==
    /\ pc = "cand"
    /\ annotations' = annotations \cup {[label |-> li, cand |-> ci]}
    /\ pc' = "raised"
    /\ UNCHANGED <<selVars, label_points, min_sep_px, placed_bboxes, li, ci,
                   best_text, best_bbox, best_score, tried, otherVars>>
    /\ UNCHANGED laterVars

\* fig.tight_layout(pad=0.5); return fig
FigReturn ==
    /\ pc = "placed"
    /\ fig_returned' = open_figs
    /\ pc' = "returned"
    /\ UNCHANGED <<altaz_dict, rmax, auto_zoom, zoom_margin_deg, zoomed, r_max,
                   rlim, plotted, pts3d, pc3d, open_figs>>
    /\ UNCHANGED <<selVars, label_points, placeVars, encVars, projVars>>
    /\ UNCHANGED laterVars

NextRender ==
    \/ FigCreate
    \/ FigBuildPoints
    \/ FigZoom
    \/ FigPlot
    \/ MakeFigureNormalize
    \/ SelectLabelsCall
    \/ PlaceLabelsCall
    \/ PlaceBegin
    \/ NextLabel
    \/ TryCandidate
    \/ DrawFails
    \/ Commit
    \/ FigReturn

SpecRender == InitRender /\ [][NextRender]_vars

-----------------------------------------------------------------------------
(* Properties of a whole render                                            *)

\* C20: if make_figure raises, the caller has no figure and no figure is
\* left registered; if it returns, every selected label has exactly one
\* annotation on the returned figure.
C20_RenderAtomic ==
    /\ pc = "raised" => fig_returned = {} /\ open_figs = {}
    /\ pc = "returned" =>
          /\ fig_returned # {}
          /\ \A k \in 1..Len(label_points) : Cardinality(AnnotationsOf(k)) = 1

\* a failed render that leaves a registered figure with some of its labels
C20_PartialFigureLeft ==
    /\ pc = "raised"
    /\ fig_returned = {}
    /\ open_figs # {}
    /\ Len(label_points) >= 2
    /\ Cardinality(AnnotationsOf(1)) = 1
    /\ AnnotationsOf(Len(label_points)) = {}

-----------------------------------------------------------------------------
(* Properties of the radial ticks                                          *)

\* the whole degree nearest to a thirtieths of a degree (no ties occur)
NearestDegree(a) == CHOOSE n \in 0..90 : 2 * (a - 30 * n) <= 30 /\ 2 * (30 * n - a) < 30

TickPositions ==
    AxesDone =>
        /\ Len(tick_rs) = 4
        /\ \A k \in 1..4 : 3 * tick_rs[k] = (k - 1) * (3 * rlim)
        /\ Len(tick_labels) = 4
        /\ tick_labels[1] = "Zénit"
        /\ \A k \in 2..3 :
              tick_labels[k] = ToString(NearestDegree(2700 - tick_rs[k])) \o "°"

\* C23 as stated: four ticks at 0, r_max/3, 2 r_max/3 and r_max; the first
\* is labelled "Zénit", the last "Horizonte", the inner two with 90 - r in
\* whole degrees.
C23_OuterTickHorizonte ==
    /\ TickPositions
    /\ AxesDone => tick_labels[4] = "Horizonte"

\* C23, amended: four ticks at 0, r_max/3, 2 r_max/3 and r_max; the first
\* is labelled "Zénit", the inner two with 90 - r in whole degrees, and the
\* last "Horizonte" only when r_max >= 89.5, else with its altitude
\* 90 - r_max in whole degrees.
C23_OuterTickByZoom ==
    /\ TickPositions
    /\ AxesDone =>
          tick_labels[4] = IF rlim >= 895 THEN "Horizonte"
                           ELSE ToString(NearestDegree(2700 - 3 * rlim)) \o "°"

\* a map zoomed to 50 degrees: its edge is labelled with the altitude 40
C23_Witness ==
    /\ AxesDone
    /\ rlim = 500
    /\ tick_rs = <<0, 500, 1000, 1500>>
    /\ tick_labels = <<"Zénit", "73°", "57°", "40°">>

-----------------------------------------------------------------------------
(* The selection as a whole, in the modes that sort                        *)

\* the earliest input position of least magnitude
FirstMinIndex ==
    CHOOSE i \in 1..Len(points) :
        /\ \A k \in 1..Len(points) : points[i].mag <= points[k].mag
        /\ \A k \in 1..(i - 1) : points[k].mag > points[i].mag

SortedSelection ==
    (Selected /\ (label_mode = Top \/ SmartMode)) =>
        /\ \A j \in 1..Len(label_points) :
              \E i \in 1..Len(points) : points[i] = label_points[j]
        /\ \A j, k \in 1..Len(label_points) :
              j # k => label_points[j] # label_points[k]
        /\ \A j, k \in 1..Len(label_points) :
              j < k => label_points[j].mag <= label_points[k].mag
        /\ (SmartMode /\ max_etiquetas >= 1) =>
              /\ Len(label_points) <= max_etiquetas
              /\ points # <<>> => label_points[1] = points[FirstMinIndex]

\* C30: in the modes "top" and smart _select_labels leaves the input list as
\* it was and returns duplicate-free points of it in non-decreasing
\* magnitude; in smart mode with max_labels >= 1 at most max_labels points,
\* the first being the earliest point of least magnitude.
C30_SortedSubListInputKept ==
    /\ []SortedSelection
    /\ [][points' = points]_vars

\* three points, the brightest not first in the input, two labels allowed
C30_Witness ==
    /\ Selected
    /\ SmartMode
    /\ max_etiquetas = 2
    /\ Len(points) = 3
    /\ Len(label_points) = 2
    /\ label_points[1] # points[1]
    /\ label_points[1] = points[FirstMinIndex]

-----------------------------------------------------------------------------
(* The order in which a render places its labels                           *)

\* the labels committed so far are label_points[1 .. Len(tried)]
PlacedInBrightnessOrder ==
    /\ \A a, b \in 1..Len(tried) :
          a < b => label_points[a].mag <= label_points[b].mag
    /\ \A k \in 1..Len(tried) :
          ChosenCand(k) # 1 =>
              \A j \in 1..(k - 1) : label_points[j].mag <= label_points[k].mag

\* C24 as stated: in every label mode the labels are placed in brightness
\* order, and a label that had to leave the first offset is never brighter
\* than a label placed before it.
C24_BrightnessOrderEveryMode == PlacedInBrightnessOrder

\* C24, amended: in the modes "top" and "inteligentes" the labels are placed
\* in brightness order and a label that had to leave the first offset is
\* never brighter than a label placed before it; in the mode "todas" they
\* are placed in the order of the mapping, whatever the magnitudes.
C24_BrightnessOrderSortedModes ==
    /\ label_mode \in {Top, Inteligentes} => PlacedInBrightnessOrder
    /\ (label_mode = Todas /\ pc \notin {"select", "raised"}) =>
          /\ label_points = points
          /\ Len(tried) <= Len(points)

\* a finished render in a sorting mode: the mapping is not in brightness
\* order, and a fainter label had to move away from a brighter one
C24_Witness ==
    /\ pc = "returned"
    /\ label_mode = Inteligentes
    /\ Len(tried) >= 2
    /\ label_points # points
    /\ \E k \in 2..Len(tried) : ChosenCand(k) # 1

-----------------------------------------------------------------------------
(* The desktop window (desktop/app_qt.py, MainWindow).  Qt runs one        *)
(* handler at a time to its end, so every handler is one action.  Figures  *)
(* are numbered in the order make_figure creates them; the y-limit of the  *)
(* axes is in thousandths of a degree.  _sync_display_now and on_save_png  *)
(* touch neither the figures nor the timer and are left out.               *)

\* figures make_figure may create for one window
MaxRenders == 3

\* scroll events one window handles
MaxScrolls == 10

\* what can happen inside on_generate's try block: everything succeeds,
\* compute_altaz (or the location) raises, make_figure raises after plt.figure
GenOutcomes == {"ok", "compute_fails", "render_fails"}

\* faulty variant: the old canvas is dropped and no new one is created
_set_figure_lost(canvas, attached, open, fig) ==
    [canvas |-> 0,
     attached |-> IF canvas # 0 THEN attached \ {canvas} ELSE attached,
     open |-> IF canvas # 0 THEN open \ {canvas} ELSE open,
     zoom_ax |-> fig]

\* _set_figure: detach the old canvas and close its figure, then install a
\* canvas for fig and take its first axes for the zoom
_set_figure(canvas, attached, open, fig) ==
    [canvas |-> fig,
     attached |-> (IF canvas # 0 THEN attached \ {canvas} ELSE attached) \cup {fig},
     open |-> IF canvas # 0 THEN open \ {canvas} ELSE open,
     zoom_ax |-> fig]

\* on_generate with the given outcome; make_figure is called with its
\* default rmax = 90 and auto_zoom = False
on_generate(outcome) ==
    LET f  == dk_nfigs + 1
        sf == _set_figure(dk_canvas, dk_attached, dk_open \cup {f}, f)
    IN  CASE outcome = "ok" ->
               /\ dk_nfigs < MaxRenders
               /\ dk_nfigs' = f
               /\ dk_open' = sf.open
               /\ dk_canvas' = sf.canvas
               /\ dk_attached' = sf.attached
               /\ dk_zoom_ax' = sf.zoom_ax
               /\ dk_ylim' = clip(900, 180, 900) * 100
               /\ dk_gen' = [outcome |-> outcome, status |-> "Mapa generado",
                             dialog |-> FALSE]
               /\ UNCHANGED dk_scrolls
          [] outcome = "render_fails" ->
               /\ dk_nfigs < MaxRenders
               /\ dk_nfigs' = f
               /\ dk_open' = dk_open \cup {f}
               /\ dk_gen' = [outcome |-> outcome,
                             status |-> "Error al generar el mapa.",
                             dialog |-> TRUE]
               /\ UNCHANGED <<dk_canvas, dk_attached, dk_zoom_ax, dk_ylim, dk_scrolls>>
          [] outcome = "compute_fails" ->
               /\ dk_gen' = [outcome |-> outcome,
                             status |-> "Error al generar el mapa.",
                             dialog |-> TRUE]
               /\ UNCHANGED <<dk_nfigs, dk_open, dk_canvas, dk_attached,
                              dk_zoom_ax, dk_ylim, dk_scrolls>>

NotDesk == <<selVars, label_points, pc, placeVars, otherVars, tickVars,
             camVars, altazVars, labelVars>>

InitDesktop ==
    /\ dk_pc = "init"
    /\ dk_theme \in {"dark", "light"}
    /\ dk_status = "Listo."
    /\ dk_nfigs = 0
    /\ dk_open = {}
    /\ dk_canvas = 0
    /\ dk_attached = {}
    /\ dk_zoom_ax = 0
    /\ dk_ylim = 0
    /\ dk_scrolls = 0
    /\ dk_gen = [outcome |-> "none", status |-> "", dialog |-> FALSE]
    /\ dk_auto_timer = 0
    /\ dk_timers = 0
    /\ dk_conns = 0
    /\ dk_timer_ms = 0
    /\ dk_last_state = -1
    /\ pc = "desktop"
    /\ SelIdle
    /\ PlaceIdle
    /\ EncIdle
    /\ ProjIdle
    /\ FigIdle
    /\ TickIdle
    /\ CamIdle
    /\ AltazIdle
    /\ LabelIdle

\* the end of __init__: self.on_generate()
Construct ==
    /\ dk_pc = "init"
    /\ \E o \in GenOutcomes : on_generate(o)
    /\ dk_status' = dk_gen'.status
    /\ dk_pc' = "ready"
    /\ UNCHANGED <<dk_theme, timerVars, NotDesk>>

\* btn_generate.clicked
GenerateButton ==
    /\ dk_pc = "ready"
    /\ \E o \in GenOutcomes : on_generate(o)
    /\ dk_status' = dk_gen'.status
    /\ UNCHANGED <<dk_pc, dk_theme, timerVars, NotDesk>>

\* on_toggle_theme: switch, regenerate, report the theme
ToggleTheme ==
    /\ dk_pc = "ready"
    /\ dk_theme' = IF dk_theme = "dark" THEN "light" ELSE "dark"
    /\ \E o \in GenOutcomes : on_generate(o)
    /\ dk_status' = "Tema aplicado"
    /\ UNCHANGED <<dk_pc, timerVars, NotDesk>>

\* the auto-refresh timer's timeout, connected to on_generate
TimerTick ==
    /\ dk_pc = "ready"
    /\ dk_timer_ms # 0
    /\ \E o \in GenOutcomes : on_generate(o)
    /\ dk_status' = dk_gen'.status
    /\ UNCHANGED <<dk_pc, dk_theme, timerVars, NotDesk>>

\* faulty variant: a timer is created at every change to Checked
needs_timer_always(auto_timer) == TRUE

\* "if self._auto_timer is None"
needs_timer(auto_timer) == auto_timer = 0

\* the state the check box shows: Unchecked (0) until the first signal
CheckState == IF dk_last_state = -1 THEN 0 ELSE dk_last_state

\* chk_auto_refresh.stateChanged(state): Unchecked is 0, Checked is 2; the
\* box is not tristate and the signal carries a state other than the current
ToggleAutoRefresh ==
    /\ dk_pc = "ready"
    /\ \E state \in {0, 2} \ {CheckState} :
          /\ dk_last_state' = state
          /\ IF state = 2
             THEN /\ IF needs_timer(dk_auto_timer)
                     THEN /\ dk_timers' = dk_timers + 1
                          /\ dk_auto_timer' = dk_timers + 1
                          /\ dk_conns' = dk_conns + 1
                     ELSE UNCHANGED <<dk_timers, dk_auto_timer, dk_conns>>
                  /\ dk_timer_ms' = 10000
                  /\ dk_status' = "Auto-refresco activado cada 10s."
             ELSE /\ dk_timer_ms' = 0
                  /\ dk_status' = "Auto-refresco desactivado."
                  /\ UNCHANGED <<dk_timers, dk_auto_timer, dk_conns>>
    /\ UNCHANGED <<dk_pc, dk_theme, canvasVars, NotDesk>>

\* new_rmax = max(5.0, min(90.0, rmax * scale)), scale 0.85 or 1 / 0.85
scrolled(ylim, button) ==
    IF button = "up" THEN Max(5000, Min(90000, (ylim * 85) \div 100))
    ELSE Max(5000, Min(90000, (ylim * 100) \div 85))

\* the canvas's scroll_event
ScrollZoom ==
    /\ dk_pc = "ready"
    /\ dk_scrolls < MaxScrolls
    /\ dk_scrolls' = dk_scrolls + 1
    /\ \E button \in {"up", "down", "other"} :
          IF dk_zoom_ax = 0 \/ button = "other"
          THEN UNCHANGED dk_ylim
          ELSE dk_ylim' = scrolled(dk_ylim, button)
    /\ UNCHANGED <<dk_pc, dk_theme, dk_status, dk_nfigs, dk_open, dk_canvas,
                   dk_attached, dk_zoom_ax, dk_gen, timerVars, NotDesk>>

\* btn_reset_zoom.clicked; without axes the handler returns at once
ResetZoom ==
    /\ dk_pc = "ready"
    /\ dk_zoom_ax # 0
    /\ dk_ylim' = 90000
    /\ UNCHANGED <<dk_pc, dk_theme, dk_status, dk_nfigs, dk_open, dk_canvas,
                   dk_attached, dk_zoom_ax, dk_scrolls, dk_gen, timerVars, NotDesk>>

\* generating, theme, auto-refresh
NextDesktop ==
    \/ Construct
    \/ GenerateButton
    \/ ToggleTheme
    \/ ToggleAutoRefresh
    \/ TimerTick

SpecDesktop == InitDesktop /\ [][NextDesktop]_vars

\* generating and zooming
NextDesktopZoom ==
    \/ Construct
    \/ GenerateButton
    \/ ScrollZoom
    \/ ResetZoom

SpecDesktopZoom == InitDesktop /\ [][NextDesktopZoom]_vars

-----------------------------------------------------------------------------
(* Properties of the desktop window                                        *)

ZoomInDomain == (dk_pc = "ready" /\ dk_zoom_ax # 0) => (dk_ylim >= 18000 /\ dk_ylim <= 90000)

C21_ZoomedBelowDomain ==
    /\ dk_zoom_ax # 0
    /\ dk_ylim < 18000

\* C26: after any on_generate calls at most one figure created by the
\* window is open and at most one canvas is attached.
C26_OneFigureOneCanvas ==
    dk_pc = "ready" =>
        /\ Cardinality(dk_open) <= 1
        /\ Cardinality(dk_attached) <= 1

\* two figures open after a failed and a successful render
C26_FiguresAccumulate ==
    /\ dk_pc = "ready"
    /\ Cardinality(dk_open) >= 2
    /\ Cardinality(dk_attached) = 1

C28_OneTimer ==
    /\ dk_timers <= 1
    /\ dk_conns = dk_timers
    /\ (dk_auto_timer # 0) = (dk_timers = 1)
    /\ (dk_timer_ms # 0) = (dk_last_state = 2)
    /\ dk_timer_ms \in {0, 10000}
    /\ dk_timer_ms # 0 => dk_auto_timer # 0

\* auto-refresh switched on and off again: the timer exists and is stopped
C28_Witness ==
    /\ dk_timers = 1
    /\ dk_conns = 1
    /\ dk_last_state = 0
    /\ dk_timer_ms = 0

-----------------------------------------------------------------------------
(* compute_altaz (core/sky_core.py).  The ephemeris is an input: the sky   *)
(* gives each of the nine bodies an altitude (tenths of a degree) and an   *)
(* azimuth, in the order of _objects_gcrs.  nombres is a sequence of       *)
(* names, or <<"None">> for the default None.                              *)

BodyNames == <<"Sol", "Luna", "Mercurio", "Venus", "Marte", "Júpiter",
               "Saturno", "Urano", "Neptuno">>

NoNombres == <<"None">>

\* names a caller may ask for: two bodies and one that is not a body
AskedNames == {"Sol", "Luna", "Plutón"}

\* altitudes of the Sun and the Moon in the skies explored
SkyAlts == {-100, 0, 300}

\* altitudes of the other seven bodies, with ties among themselves and with
\* the Sun and the Moon
OtherAlts == <<300, -50, 0, 450, 450, -200, 10>>

Sky(sol, luna) ==
    [i \in 1..9 |->
        [name |-> BodyNames[i],
         alt |-> IF i = 1 THEN sol ELSE IF i = 2 THEN luna ELSE OtherAlts[i - 2],
         az |-> (i - 1) * 40]]

NombresLists == UNION { [1..n -> AskedNames] : n \in 0..MaxPoints }

\* "if nombres is not None: wanted = set(nombres); objs = {k: v ... if k in wanted}"
wanted_objs(objs, nombres) ==
    IF nombres = NoNombres THEN objs
    ELSE LET wanted == { nombres[i] : i \in 1..Len(nombres) }
             keep(o) == o.name \in wanted
         IN  SelectSeq(objs, keep)

\* SkyObject(nombre, alt_deg, az_deg, mag = MAGS.get(name, 1.0), visible = alt > 0)
SkyObject(c) ==
    [nombre |-> c.name, alt_deg |-> c.alt, az_deg |-> c.az,
     mag |-> MAGS_get(c.name), visible |-> c.alt > 0]

\* the place of o in a list sorted by altitude, highest first: after every
\* entry at least as high (the sort is stable)
InsertByAltDesc(s, o) ==
    LET k == Cardinality({ i \in 1..Len(s) : s[i].alt_deg >= o.alt_deg })
    IN  SubSeq(s, 1, k) \o <<o>> \o SubSeq(s, k + 1, Len(s))

RECURSIVE SortedByAltFrom(_, _, _)
SortedByAltFrom(t, i, acc) ==
    IF i > Len(t) THEN acc
    ELSE SortedByAltFrom(t, i + 1, InsertByAltDesc(acc, t[i]))

\* faulty variant: the table is left in the mapping's order
table_sorted_unsorted(t) == t

\* table.sort(key = lambda o: o.alt_deg, reverse = True)
table_sorted(t) == SortedByAltFrom(t, 1, <<>>)

InitAltaz ==
    /\ ca_nombres \in NombresLists \cup {NoNombres}
    /\ \E sol \in SkyAlts, luna \in SkyAlts : ca_sky = Sky(sol, luna)
    /\ ca_altaz = <<>>
    /\ ca_table = <<>>
    /\ ca_pc = "call"
    /\ pc = "altaz"
    /\ SelIdle
    /\ PlaceIdle
    /\ EncIdle
    /\ ProjIdle
    /\ FigIdle
    /\ TickIdle
    /\ DeskIdle
    /\ CamIdle
    /\ LabelIdle

ComputeAltaz ==
    /\ ca_pc = "call"
    /\ LET objs == wanted_objs(ca_sky, ca_nombres)
       IN  /\ ca_altaz' = objs
           /\ ca_table' = table_sorted([i \in 1..Len(objs) |-> SkyObject(objs[i])])
    /\ ca_pc' = "returned"
    /\ UNCHANGED <<ca_nombres, ca_sky, selVars, label_points, pc, placeVars,
                   otherVars, tickVars, deskVars, camVars, labelVars>>

SpecAltaz == InitAltaz /\ [][ComputeAltaz]_vars

-----------------------------------------------------------------------------
(* Properties of compute_altaz                                             *)

\* the bodies the call is about
ExpectedBodies ==
    LET known == { BodyNames[i] : i \in 1..9 }
    IN  IF ca_nombres = NoNombres THEN known
        ELSE known \cap { ca_nombres[i] : i \in 1..Len(ca_nombres) }

SkyOf(name) == CHOOSE c \in { ca_sky[i] : i \in 1..9 } : c.name = name

\* C29: compute_altaz returns a mapping and a table covering exactly the
\* known bodies named in nombres (all nine for None; unknown names ignored,
\* duplicates counted once); the table has one SkyObject per body, is
\* sorted by altitude in non-increasing order, and every entry has
\* visible == (alt_deg > 0) and its magnitude from MAGS.
C29_MappingAndTable ==
    ca_pc = "returned" =>
        /\ { ca_altaz[i].name : i \in 1..Len(ca_altaz) } = ExpectedBodies
        /\ { ca_table[i].nombre : i \in 1..Len(ca_table) } = ExpectedBodies
        /\ Len(ca_altaz) = Cardinality(ExpectedBodies)
        /\ Len(ca_table) = Cardinality(ExpectedBodies)
        /\ \A i \in 1..Len(ca_table) : \A j \in 1..Len(ca_table) :
              i < j => ca_table[i].alt_deg >= ca_table[j].alt_deg
        /\ \A i \in 1..Len(ca_table) :
              /\ ca_table[i].visible = (ca_table[i].alt_deg > 0)
              /\ ca_table[i].mag = MAGS[ca_table[i].nombre]
              /\ ca_table[i].alt_deg = SkyOf(ca_table[i].nombre).alt
              /\ ca_table[i].az_deg = SkyOf(ca_table[i].nombre).az

\* the Sun asked for twice together with an unknown name: one entry, on the
\* horizon and so not visible
C29_Witness ==
    /\ ca_pc = "returned"
    /\ ca_nombres = <<"Sol", "Plutón", "Sol">>
    /\ Len(ca_table) = 1
    /\ ca_table[1].nombre = "Sol"
    /\ ca_table[1].alt_deg = 0
    /\ ~ca_table[1].visible

\* the default call: nine entries, the Moon ahead of Mercury at the same
\* altitude
C29_WitnessAll ==
    /\ ca_pc = "returned"
    /\ ca_nombres = NoNombres
    /\ Len(ca_table) = 9
    /\ ca_table[1].nombre = "Júpiter"
    /\ ca_table[3].nombre = "Luna"
    /\ ca_table[4].nombre = "Mercurio"
    /\ ca_table[3].alt_deg = ca_table[4].alt_deg

-----------------------------------------------------------------------------
(* The camera of the 3D view (core/sky_3d.py, the script of               *)
(* build_sky_3d_html).  Coordinates are in ten-thousandths of the dome's   *)
(* radius.  The browser runs the script once and then one event handler    *)
(* at a time.                                                              *)

\* clicks on objects one page handles
MaxClicks == 2

\* the meshes of the scene: DATA.points, the output of _points_from_altaz
SceneObjects == { xyz(300, 90), xyz(600, 180), xyz(100, 270) }

\* offsets from the target the user can drag or dolly the camera to, between
\* controls.minDistance 0.45 and controls.maxDistance 5.5
OrbitOffsets == { <<10000, 0, 0>>, <<0, -4500, 0>>, <<0, -30000, 3600>> }

\* setGroundNorthView: eyeZ = 0.06, camera at (0, 0, eyeZ), target (0, 1, eyeZ)
ground_north_view == [position |-> <<0, 0, 600>>, target |-> <<0, 10000, 600>>]

\* Vector3.lerp(v, 0.65)
lerp65(t, v) == [k \in 1..3 |-> t[k] + ((v[k] - t[k]) * 65) \div 100]

NotCam == <<selVars, label_points, pc, placeVars, otherVars, tickVars,
            deskVars, altazVars, labelVars>>

InitScene3D ==
    /\ cam_pc = "load"
    /\ cam_pos = <<0, 0, 0>>
    /\ cam_target = <<0, 0, 0>>
    /\ cam_by = "none"
    /\ cam_clicks = 0
    /\ pc = "scene3d"
    /\ SelIdle
    /\ PlaceIdle
    /\ EncIdle
    /\ ProjIdle
    /\ FigIdle
    /\ TickIdle
    /\ DeskIdle
    /\ AltazIdle
    /\ LabelIdle

\* the end of the script: onResize(); setGroundNorthView();
SceneInit ==
    /\ cam_pc = "load"
    /\ cam_pos' = ground_north_view.position
    /\ cam_target' = ground_north_view.target
    /\ cam_by' = "init"
    /\ cam_pc' = "live"
    /\ UNCHANGED <<cam_clicks, NotCam>>

\* "dblclick" on the canvas
DblClick ==
    /\ cam_pc = "live"
    /\ cam_pos' = ground_north_view.position
    /\ cam_target' = ground_north_view.target
    /\ cam_by' = "dblclick"
    /\ UNCHANGED <<cam_pc, cam_clicks, NotCam>>

\* "click" on the button Centrar
BtnCenter ==
    /\ cam_pc = "live"
    /\ cam_pos' = ground_north_view.position
    /\ cam_target' = ground_north_view.target
    /\ cam_by' = "button"
    /\ UNCHANGED <<cam_pc, cam_clicks, NotCam>>

\* "click" on the canvas that hits an object: the target moves towards it
ClickObject ==
    /\ cam_pc = "live"
    /\ cam_clicks < MaxClicks
    /\ cam_clicks' = cam_clicks + 1
    /\ \E obj \in SceneObjects : cam_target' = lerp65(cam_target, obj)
    /\ cam_by' = "click"
    /\ UNCHANGED <<cam_pc, cam_pos, NotCam>>

\* the user drags or dollies with OrbitControls
Orbit ==
    /\ cam_pc = "live"
    /\ \E off \in OrbitOffsets :
          cam_pos' = [k \in 1..3 |-> cam_target[k] + off[k]]
    /\ cam_by' = "orbit"
    /\ UNCHANGED <<cam_pc, cam_target, cam_clicks, NotCam>>

NextScene3D ==
    \/ SceneInit
    \/ DblClick
    \/ BtnCenter
    \/ ClickObject
    \/ Orbit

SpecScene3D == InitScene3D /\ [][NextScene3D]_vars

-----------------------------------------------------------------------------
(* Properties of the 3D camera                                             *)

\* the camera has just been positioned by the script or by a re-centring
Recentred == cam_by \in {"init", "dblclick", "button"}

\* C22: at initialization and whenever the user re-centres with the button
\* or a double click, the camera is placed by the framing computation: away
\* from the point it looks at along the direction (0, -1, 0.12).
C22_CameraFramed ==
    Recentred =>
        LET o == [k \in 1..3 |-> cam_pos[k] - cam_target[k]]
        IN  /\ o[1] = 0
            /\ o[2] < 0
            /\ o[3] * 100 = (0 - o[2]) * 12

\* what the script does instead: the ground-level preset looking north
C22_GroundPreset ==
    Recentred =>
        /\ cam_pos = <<0, 0, 600>>
        /\ cam_target = <<0, 10000, 600>>

\* a re-centring after the user clicked an object and moved the camera
C22_RecentredAfterUse ==
    /\ cam_by = "dblclick"
    /\ cam_clicks = 2
    /\ cam_pos = <<0, 0, 600>>

-----------------------------------------------------------------------------
(* The place label of the web page (web/app_streamlit.py).  Streamlit runs *)
(* the script from top to bottom at the first load and after every widget  *)
(* interaction; one script run is one action.  In a run render_controles   *)
(* may call the reverse geocoder, then creates the text input, and the     *)
(* button "Aplicar cambios" ends the run with apply_draft and st.rerun().  *)

\* what the user can type into "Etiqueta del lugar"
TypedLabels == { <<>>, <<" ">>, <<"C", "a", "s", "a">>, <<"C", "a", "s", "a", " ">> }

\* what the reverse geocoder can give: a label (two places), no label, an
\* exception
GeocodeResults ==
    { [raises |-> FALSE, label |-> <<"B", "s", " ", "A", "s">>],
      [raises |-> FALSE, label |-> <<"T", "i", "g", "r", "e">>],
      [raises |-> FALSE, label |-> <<>>],
      [raises |-> TRUE, label |-> <<>>] }

\* faulty variant: the geocoder is called whenever the stored label is empty
geocode_wanted_if_empty(user_edited, label) == ~user_edited \/ strip(label) = <<>>

\* "if not st.session_state.get('place_label_user_edited', False)"
geocode_wanted(user_edited, label) == ~user_edited

\* one script run: geo says whether the browser supplied a location, result
\* is the geocoder's answer, widget the text of the input before the run
\* (first: the input does not exist yet), keep whether an input whose value
\* argument changed keeps its text, aplicar whether the button was pressed
ScriptRun(geo, result, first, widget, keep, aplicar) ==
    LET calls  == geo /\ geocode_wanted(place_label_user_edited, place_label)
        label1 == IF calls /\ ~result.raises THEN result.label ELSE place_label
        src1   == IF calls THEN "auto" ELSE place_label_source
        param  == strip(label1)
        text   == IF first THEN param
                  ELSE IF param # wl_value /\ ~keep THEN param
                  ELSE widget
        new_label == strip(text)
        old_label == strip(label1)
        edited == new_label # <<>> /\ new_label # old_label
    IN  /\ wl_geo' = geo
        /\ wl_tried' = calls
        /\ wl_left_empty' = (strip(place_label) = <<>> /\ (first \/ strip(widget) = <<>>))
        /\ wl_value' = param
        /\ wl_widget' = text
        /\ IF aplicar
           THEN /\ place_label_user_edited' = (place_label_user_edited \/ edited)
                /\ place_label_source' = IF edited THEN "user" ELSE src1
                /\ place_label' = new_label
                /\ wl_pc' = "rerun"
           ELSE /\ place_label_user_edited' = place_label_user_edited
                /\ place_label_source' = src1
                /\ place_label' = label1
                /\ wl_pc' = "ready"

NotLabel == <<selVars, label_points, pc, placeVars, otherVars, tickVars,
              deskVars, camVars, altazVars>>

\* the session defaults, before the first script run
InitLabel ==
    /\ place_label = <<>>
    /\ place_label_user_edited = FALSE
    /\ place_label_source = "auto"
    /\ wl_widget = <<>>
    /\ wl_geo = FALSE
    /\ wl_left_empty = FALSE
    /\ wl_tried = FALSE
    /\ wl_value = <<>>
    /\ wl_pc = "load"
    /\ pc = "web"
    /\ SelIdle
    /\ PlaceIdle
    /\ EncIdle
    /\ ProjIdle
    /\ FigIdle
    /\ TickIdle
    /\ DeskIdle
    /\ CamIdle
    /\ AltazIdle

\* the page is opened
FirstRun ==
    /\ wl_pc = "load"
    /\ \E geo \in BOOLEAN, result \in GeocodeResults :
          ScriptRun(geo, result, TRUE, <<>>, TRUE, FALSE)
    /\ UNCHANGED NotLabel

\* the user changes the text of the input
EditLabel ==
    /\ wl_pc = "ready"
    /\ \E t \in TypedLabels \ {wl_widget}, geo \in BOOLEAN,
          result \in GeocodeResults, keep \in BOOLEAN :
          ScriptRun(geo, result, FALSE, t, keep, FALSE)
    /\ UNCHANGED NotLabel

\* the user presses "Aplicar cambios"
Aplicar ==
    /\ wl_pc = "ready"
    /\ \E geo \in BOOLEAN, result \in GeocodeResults, keep \in BOOLEAN :
          ScriptRun(geo, result, FALSE, wl_widget, keep, TRUE)
    /\ UNCHANGED NotLabel

\* the run started by st.rerun(), or by any other widget or the location
Rerun ==
    /\ wl_pc \in {"ready", "rerun"}
    /\ \E geo \in BOOLEAN, result \in GeocodeResults, keep \in BOOLEAN :
          ScriptRun(geo, result, FALSE, wl_widget, keep, FALSE)
    /\ UNCHANGED NotLabel

NextLabelPage ==
    \/ FirstRun
    \/ EditLabel
    \/ Aplicar
    \/ Rerun

SpecLabel == InitLabel /\ [][NextLabelPage]_vars

-----------------------------------------------------------------------------
(* Properties of the place label                                           *)

\* C25: whenever the place label is left empty and the browser supplies a
\* location, the script run tries to set an automatic label, also after the
\* user typed a custom label and later cleared it.
C25_EmptyLabelIsGeocoded ==
    (wl_pc \in {"ready", "rerun"} /\ wl_geo /\ wl_left_empty) => wl_tried

\* a run with a location and an empty label that did not call the geocoder
C25_ClearedLabelStaysEmpty ==
    /\ wl_pc = "ready"
    /\ wl_geo
    /\ wl_left_empty
    /\ ~wl_tried
    /\ place_label = <<>>
    /\ place_label_user_edited

\* what does hold: the geocoder is tried in every run with a location until
\* the user applies a label of their own
C25_GeocodedUntilEdited ==
    (wl_pc \in {"ready", "rerun"} /\ wl_geo /\ ~place_label_user_edited) => wl_tried

=============================================================================
